---- MODULE Spec2Model ----
(***************************************************************************)
(* CodeDNA dependency-graph engine: buildGraph (backend/services/          *)
(* graphBuilder.js) followed by computeGraphAnalytics (buildAdjacencyList, *)
(* buildReverseAdjacencyList, detectCycles, computeCentrality).            *)
(*                                                                         *)
(* Strings are sequences of tokens.  The token alphabet is                 *)
(*   "a" "b" "c" "d" "index" "/" "." "->" ".js" ".jsx" ".ts" ".tsx" ".py"  *)
(* and every string has exactly one tokenisation over it (no string of     *)
(* tokens is a proper prefix decomposition of another: "index" needs an    *)
(* "i", ".jsx" needs an "x", neither of which is a token), so two token    *)
(* sequences are equal exactly when the JavaScript strings are equal.      *)
(***************************************************************************)
EXTENDS Integers, Sequences, FiniteSets, TLC

(***************************************************************************)
(* Bounds of the model.                                                    *)
(***************************************************************************)
\* files in an input list drawn from PathPool (build-focused inputs)
MaxFiles == 2
\* imports, summed over the files of a build-focused input list
MaxImports == 2
\* files of a graph-focused input list (paths a, b, c, ...)
MaxNodes == 3
\* imports, summed over the files of a graph-focused input list
MaxEdges == 3
\* files of a ring input (file i imports file i+1, the last one the first)
MaxRing == 4
\* nodes handed to computeRisks when it is analysed on its own
MaxRiskNodes == 2

MaxChain == 11

MaxClusterNodes == 3

VARIABLES
    pc,           \* position in analyze: buildGraph, then computeGraphAnalytics
    parsedFiles,  \* the FileRecord list handed to buildGraph
    graph,        \* { nodes, edges } returned by buildGraph
    adjacency,    \* buildAdjacencyList(graph)
    reverseAdj,   \* buildReverseAdjacencyList(graph)
    index,        \* detectCycles: Map nodeId -> discovery index
    lowlink,      \* detectCycles: Map nodeId -> lowlink
    onStack,      \* detectCycles: Map nodeId -> boolean
    stack,        \* detectCycles: Tarjan stack
    sccs,         \* detectCycles: components kept so far
    currentIndex, \* detectCycles: next discovery index
    frames,       \* active strongConnect calls, outermost first: [node, pos]
    outer,        \* position of the for-loop over nodes in detectCycles
    calls,        \* how many times strongConnect was entered, per node id
    cycles,       \* the list returned by detectCycles
    centrality,   \* computeCentrality: the object centrality (byNode)
    pr,           \* computePageRank: the Map pr
    iteration,    \* computePageRank: the loop counter i
    rankings,     \* computeCentrality: topByDegree, topByPageRank, topByBetweenness
    clusters,     \* the result of computeClusters
    risks,        \* the result of computeRisks
    summary       \* the summary of computeGraphAnalytics

vars == <<pc, parsedFiles, graph, adjacency, reverseAdj, index, lowlink, onStack,
          stack, sccs, currentIndex, frames, outer, calls, cycles, centrality,
          pr, iteration, rankings, clusters, risks, summary>>

(***************************************************************************)
(* Sequence helpers.                                                       *)
(***************************************************************************)
Range(s) == {s[i] : i \in 1..Len(s)}

Last(s) == s[Len(s)]

Front(s) == SubSeq(s, 1, Len(s) - 1)

\* mutant: the second argument, whatever the first
MinSecond(a, b) == b

Min(a, b) == IF a < b THEN a ELSE b

\* JavaScript Map / plain object keyed by strings
EmptyMap == [k \in {} |-> 0]

Put(m, k, v) == [x \in DOMAIN m \cup {k} |-> IF x = k THEN v ELSE m[x]]

\* m.get(k) || dflt
GetOr(m, k, dflt) == IF k \in DOMAIN m THEN m[k] ELSE dflt

RECURSIVE Flatten(_)
Flatten(ss) == IF ss = <<>> THEN <<>> ELSE Head(ss) \o Flatten(Tail(ss))

RECURSIVE Sum(_)
Sum(ns) == IF ns = <<>> THEN 0 ELSE Head(ns) + Sum(Tail(ns))

(***************************************************************************)
(* path.normalize (POSIX) on token strings.                                *)
(***************************************************************************)
RECURSIVE SplitFrom(_, _, _)
\* the "/"-separated segments of p[i..], cur being the segment read so far
SplitFrom(p, i, cur) ==
    IF i > Len(p) THEN <<cur>>
    ELSE IF p[i] = "/" THEN <<cur>> \o SplitFrom(p, i + 1, <<>>)
    ELSE SplitFrom(p, i + 1, Append(cur, p[i]))

Split(p) == SplitFrom(p, 1, <<>>)

RECURSIVE Join(_)
Join(segs) ==
    IF segs = <<>> THEN <<>>
    ELSE IF Len(segs) = 1 THEN segs[1]
    ELSE segs[1] \o <<"/">> \o Join(Tail(segs))

RECURSIVE NormalizeString(_, _, _)
\* drops "" and "." segments and resolves ".." against the segment before it
NormalizeString(segs, res, allowAboveRoot) ==
    IF segs = <<>> THEN res
    ELSE LET s == Head(segs) IN
         IF s = <<>> \/ s = <<".">>
         THEN NormalizeString(Tail(segs), res, allowAboveRoot)
         ELSE IF s = <<".", ".">>
         THEN IF res # <<>> /\ Last(res) # <<".", ".">>
              THEN NormalizeString(Tail(segs), Front(res), allowAboveRoot)
              ELSE IF allowAboveRoot
              THEN NormalizeString(Tail(segs), Append(res, s), allowAboveRoot)
              ELSE NormalizeString(Tail(segs), res, allowAboveRoot)
         ELSE NormalizeString(Tail(segs), Append(res, s), allowAboveRoot)

Normalize(p) ==
    IF p = <<>> THEN <<".">>
    ELSE LET isAbsolute == p[1] = "/"
             trailing == Last(p) = "/"
             body == Join(NormalizeString(Split(p), <<>>, ~isAbsolute))
         IN  IF body = <<>>
             THEN IF isAbsolute THEN <<"/">>
                  ELSE IF trailing THEN <<".", "/">> ELSE <<".">>
             ELSE (IF isAbsolute THEN <<"/">> ELSE <<>>) \o body
                  \o (IF trailing THEN <<"/">> ELSE <<>>)

\* path.basename: the last non-empty segment
Basename(p) ==
    LET segs == SelectSeq(Split(p), LAMBDA s : s # <<>>)
    IN  IF segs = <<>> THEN <<>> ELSE Last(segs)

(***************************************************************************)
(* buildGraph.                                                             *)
(***************************************************************************)
SourceExts == {".js", ".jsx", ".ts", ".tsx", ".py"}

\* file.path.replace(/\.(js|jsx|ts|tsx|py)$/, '')
StripExt(p) == IF p # <<>> /\ Last(p) \in SourceExts THEN Front(p) ELSE p

RECURSIVE FileMapFrom(_, _, _)
\* the Map after the first loop of buildGraph: key -> position of the file
FileMapFrom(files, i, m) ==
    IF i > Len(files) THEN m
    ELSE LET p == files[i].path
             m1 == Put(m, p, i)
             w == StripExt(p)
             m2 == IF w \in DOMAIN m1 THEN m1 ELSE Put(m1, w, i)
         IN  FileMapFrom(files, i + 1, m2)

FileMap(files) == FileMapFrom(files, 1, EmptyMap)

PossiblePaths(targetPath) ==
    << targetPath,
       targetPath \o <<".js">>,
       targetPath \o <<".jsx">>,
       targetPath \o <<".ts">>,
       targetPath \o <<".tsx">>,
       targetPath \o <<"/", "index", ".js">>,
       targetPath \o <<"/", "index", ".ts">>,
       targetPath \o <<"/", "index", ".jsx">>,
       targetPath \o <<"/", "index", ".tsx">> >>

RECURSIVE FirstHit(_, _, _)
\* position of the file of the first probe the Map has, 0 when none has
FirstHit(fileMap, possible, j) ==
    IF j > Len(possible) THEN 0
    ELSE IF Normalize(possible[j]) \in DOMAIN fileMap
         THEN fileMap[Normalize(possible[j])]
         ELSE FirstHit(fileMap, possible, j + 1)

\* targetFile of one import: position in files, 0 for null
TargetFile(fileMap, imp) == FirstHit(fileMap, PossiblePaths(imp.module), 1)

\* mutant: the isRelative test left out
ConsidersImportAny(imp) == TRUE

\* the guard of the edge loop: only relative imports are looked at
ConsidersImport(imp) == imp.isRelative

RECURSIVE ImportEdgesDangling(_, _, _, _)
\* mutant: an import that resolves to nothing is pushed with its specifier as target
ImportEdgesDangling(files, fileMap, f, j) ==
    IF j > Len(files[f].imports) THEN <<>>
    ELSE LET imp == files[f].imports[j]
             t == IF imp.isRelative THEN TargetFile(fileMap, imp) ELSE 0
             rest == ImportEdgesDangling(files, fileMap, f, j + 1)
         IN  IF ~imp.isRelative THEN rest
             ELSE <<[source |-> files[f].path,
                     target |-> IF t # 0 THEN files[t].path ELSE imp.module]>> \o rest

RECURSIVE ImportEdges(_, _, _, _)
\* the edges one file pushes, in import order (without their ids)
ImportEdges(files, fileMap, f, j) ==
    IF j > Len(files[f].imports) THEN <<>>
    ELSE LET imp == files[f].imports[j]
             t == IF ConsidersImport(imp) THEN TargetFile(fileMap, imp) ELSE 0
             rest == ImportEdges(files, fileMap, f, j + 1)
         IN  IF t # 0
             THEN <<[source |-> files[f].path, target |-> files[t].path]>> \o rest
             ELSE rest

\* the edge list before deduplication, ids edge-0, edge-1, ... in push order
CreateEdges(files) ==
    LET fileMap == FileMap(files)
        pushed == Flatten([f \in 1..Len(files) |-> ImportEdges(files, fileMap, f, 1)])
    IN  [k \in 1..Len(pushed) |->
            [id |-> k - 1, source |-> pushed[k].source, target |-> pushed[k].target]]

\* `${edge.source}->${edge.target}`
EdgeKey(edge) == edge.source \o <<"->">> \o edge.target

RECURSIVE UniqueFrom(_, _, _)
UniqueFrom(edges, k, edgeSet) ==
    IF k > Len(edges) THEN <<>>
    ELSE IF EdgeKey(edges[k]) \in edgeSet
         THEN UniqueFrom(edges, k + 1, edgeSet)
         ELSE <<edges[k]>> \o UniqueFrom(edges, k + 1, edgeSet \cup {EdgeKey(edges[k])})

UniqueEdges(edges) == UniqueFrom(edges, 1, {})

RECURSIVE ImportedByCount(_, _, _, _, _)
\* the Map importedByCount after the first pass, which is at import j of file
\* f: one count for every relative import that resolves, on the path of the
\* file it resolves to
ImportedByCount(files, fileMap, f, j, counts) ==
    IF f > Len(files) THEN counts
    ELSE IF j > Len(files[f].imports)
    THEN ImportedByCount(files, fileMap, f + 1, 1, counts)
    ELSE LET imp == files[f].imports[j]
             t == IF imp.isRelative THEN TargetFile(fileMap, imp) ELSE 0
         IN  ImportedByCount(files, fileMap, f, j + 1,
                             IF t # 0
                             THEN Put(counts, files[t].path,
                                      GetOr(counts, files[t].path, 0) + 1)
                             ELSE counts)

CreateNodes(files) ==
    LET importedByCount == ImportedByCount(files, FileMap(files), 1, 1, EmptyMap) IN
    [i \in 1..Len(files) |->
        [id |-> files[i].path,
         data |-> [label |-> Basename(files[i].path),
                   path |-> files[i].path,
                   language |-> files[i].language,
                   loc |-> files[i].loc,
                   complexity |-> files[i].complexity,
                   importCount |->
                       Len(SelectSeq(files[i].imports, LAMBDA imp : imp.isRelative)),
                   importedByCount |-> GetOr(importedByCount, files[i].path, 0)]]]

buildGraph(files) ==
    [nodes |-> CreateNodes(files), edges |-> UniqueEdges(CreateEdges(files))]

(***************************************************************************)
(* computeGraphAnalytics: adjacency lists.                                 *)
(***************************************************************************)
NodeIds(g) == {g.nodes[i].id : i \in 1..Len(g.nodes)}

RECURSIVE AdjFrom(_, _, _)
\* the second loop of buildAdjacencyList
AdjFrom(edges, k, adj) ==
    IF k > Len(edges) THEN adj
    ELSE AdjFrom(edges, k + 1,
                 IF edges[k].source \in DOMAIN adj
                 THEN Put(adj, edges[k].source,
                          Append(adj[edges[k].source], edges[k].target))
                 ELSE adj)

buildAdjacencyList(g) == AdjFrom(g.edges, 1, [id \in NodeIds(g) |-> <<>>])

RECURSIVE RevAdjFrom(_, _, _)
\* the second loop of buildReverseAdjacencyList
RevAdjFrom(edges, k, adj) ==
    IF k > Len(edges) THEN adj
    ELSE RevAdjFrom(edges, k + 1,
                    IF edges[k].target \in DOMAIN adj
                    THEN Put(adj, edges[k].target,
                             Append(adj[edges[k].target], edges[k].source))
                    ELSE adj)

\* mutant: keyed by edge.source, as buildAdjacencyList
buildReverseAdjacencyListBySource(g) == AdjFrom(g.edges, 1, [id \in NodeIds(g) |-> <<>>])

buildReverseAdjacencyList(g) == RevAdjFrom(g.edges, 1, [id \in NodeIds(g) |-> <<>>])

(***************************************************************************)
(* detectCycles: Tarjan's algorithm, one action per step of strongConnect. *)
(***************************************************************************)
\* mutant: thresholds one too high
SeverityOffByOne(n) == IF n > 4 THEN "high" ELSE IF n > 3 THEN "medium" ELSE "low"

\* cycle.length > 3 ? 'high' : cycle.length > 2 ? 'medium' : 'low'
Severity(n) == IF n > 3 THEN "high" ELSE IF n > 2 THEN "medium" ELSE "low"

\* mutant: every component is kept
KeepSccAny(scc) == Len(scc) > 0

\* Only keep SCCs with more than 1 node
KeepScc(scc) == Len(scc) > 1

\* mutant: a node counts as visited only while it is on the stack
UnvisitedOrOffStack(idx, id) == id \notin DOMAIN idx \/ ~GetOr(onStack, id, FALSE)

\* the test that guards a recursive strongConnect call: !index.has(id)
Unvisited(idx, id) == id \notin DOMAIN idx

\* mutant: the onStack test left out
IsOnStackAlways(onStk, id) == TRUE

\* onStack.get(neighbor)
IsOnStack(onStk, id) == GetOr(onStk, id, FALSE)

RECURSIVE Reverse(_)
Reverse(s) == IF s = <<>> THEN <<>> ELSE Append(Reverse(Tail(s)), Head(s))

\* mutant: the whole stack is popped
PopWholeStack(stk, nodeId) == 1

\* position on the stack down to which the do-while of strongConnect pops
PopFrom(stk, nodeId) ==
    CHOOSE k \in 1..Len(stk) :
        stk[k] = nodeId /\ \A j \in (k + 1)..Len(stk) : stk[j] # nodeId

\* nodes.find(n => n.id === id)?.data?.label || id
LabelOf(nodes, id) ==
    LET hits == {i \in 1..Len(nodes) : nodes[i].id = id}
        first == CHOOSE i \in hits : \A j \in hits : i <= j
    IN  IF hits = {} \/ nodes[first].data.label = <<>> THEN id
        ELSE nodes[first].data.label

FormatCycles(found, nodes) ==
    [i \in 1..Len(found) |->
        [id |-> i,
         nodes |-> found[i],
         nodeLabels |-> [j \in 1..Len(found[i]) |-> LabelOf(nodes, found[i][j])],
         size |-> Len(found[i]),
         severity |-> Severity(Len(found[i]))]]

\* detectCycles as a function of its arguments: t holds the locals index,
\* lowlink, onStack, stack, sccs and currentIndex
RECURSIVE strongConnect(_, _, _), ForNeighbors(_, _, _, _)
\* for (const neighbor of neighbors), from position pos on, inside
\* strongConnect(nodeId)
ForNeighbors(adj, nodeId, pos, t) ==
    LET neighbors == GetOr(adj, nodeId, <<>>) IN
    IF pos > Len(neighbors) THEN t
    ELSE LET neighbor == neighbors[pos] IN
         IF Unvisited(t.index, neighbor)
         THEN LET r == strongConnect(adj, neighbor, t)
              IN  ForNeighbors(adj, nodeId, pos + 1,
                               [r EXCEPT !.lowlink =
                                   Put(r.lowlink, nodeId,
                                       Min(r.lowlink[nodeId], r.lowlink[neighbor]))])
         ELSE IF IsOnStack(t.onStack, neighbor)
         THEN ForNeighbors(adj, nodeId, pos + 1,
                           [t EXCEPT !.lowlink =
                               Put(t.lowlink, nodeId,
                                   Min(t.lowlink[nodeId], t.index[neighbor]))])
         ELSE ForNeighbors(adj, nodeId, pos + 1, t)

strongConnect(adj, nodeId, t) ==
    LET entered == [index |-> Put(t.index, nodeId, t.currentIndex),
                    lowlink |-> Put(t.lowlink, nodeId, t.currentIndex),
                    currentIndex |-> t.currentIndex + 1,
                    stack |-> Append(t.stack, nodeId),
                    onStack |-> Put(t.onStack, nodeId, TRUE),
                    sccs |-> t.sccs]
        v == ForNeighbors(adj, nodeId, 1, entered)
        k == PopFrom(v.stack, nodeId)
        scc == Reverse(SubSeq(v.stack, k, Len(v.stack)))
    IN  IF v.lowlink[nodeId] = v.index[nodeId]
        THEN [v EXCEPT !.stack = SubSeq(v.stack, 1, k - 1),
                       !.onStack = [id \in DOMAIN v.onStack |->
                                       IF id \in Range(scc) THEN FALSE ELSE v.onStack[id]],
                       !.sccs = IF KeepScc(scc) THEN Append(v.sccs, scc) ELSE v.sccs]
        ELSE v

RECURSIVE ForNodes(_, _, _, _)
\* for (const node of nodes) if (!index.has(node.id)) strongConnect(node.id)
ForNodes(adj, nodes, i, t) ==
    IF i > Len(nodes) THEN t
    ELSE IF Unvisited(t.index, nodes[i].id)
         THEN ForNodes(adj, nodes, i + 1, strongConnect(adj, nodes[i].id, t))
         ELSE ForNodes(adj, nodes, i + 1, t)

\* the list sccs when the loop over the nodes is done
SccsFound(adj, nodes) ==
    ForNodes(adj, nodes, 1,
             [index |-> EmptyMap, lowlink |-> EmptyMap, currentIndex |-> 0,
              stack |-> <<>>, onStack |-> EmptyMap, sccs |-> <<>>]).sccs

detectCycles(adj, nodes) == FormatCycles(SccsFound(adj, nodes), nodes)

\* the first five statements of strongConnect(nodeId)
Enter(nodeId) ==
    /\ index' = Put(index, nodeId, currentIndex)
    /\ lowlink' = Put(lowlink, nodeId, currentIndex)
    /\ currentIndex' = currentIndex + 1
    /\ stack' = Append(stack, nodeId)
    /\ onStack' = Put(onStack, nodeId, TRUE)
    /\ frames' = Append(frames, [node |-> nodeId, pos |-> 1])
    /\ calls' = Put(calls, nodeId, GetOr(calls, nodeId, 0) + 1)

Top == Last(frames)

\* mutant: the loop of strongConnect runs over every node of the graph
NeighborsAll(nodeId) == [i \in 1..Len(graph.nodes) |-> graph.nodes[i].id]

\* adjacency.get(nodeId) || []
Neighbors(nodeId) == GetOr(adjacency, nodeId, <<>>)

(***************************************************************************)
(* computeCentrality: the degree records.                                  *)
(***************************************************************************)
OutDegree(adj, id) == Len(GetOr(adj, id, <<>>))

InDegree(rev, id) == Len(GetOr(rev, id, <<>>))

(***************************************************************************)
(* Numbers.  A JavaScript number that is a quotient of two small integers  *)
(* is the fraction in lowest terms: two such quotients are the same double *)
(* exactly when they are the same fraction.                                *)
(***************************************************************************)
RECURSIVE GCD(_, _)
GCD(a, b) == IF b = 0 THEN a ELSE GCD(b, a % b)

\* n / d, d > 0
Fraction(n, d) == [num |-> n \div GCD(n, d), den |-> d \div GCD(n, d)]

Zero == Fraction(0, 1)

One == Fraction(1, 1)

\* a < b, for fractions
Less(a, b) == a.num * b.den < b.num * a.den

RECURSIVE CentralityFrom(_, _, _, _, _)
\* the for-loop over nodes that fills centrality[id]
CentralityFrom(adj, rev, nodes, i, cent) ==
    IF i > Len(nodes) THEN cent
    ELSE LET id == nodes[i].id
             rec == [nodeId |-> id,
                     label |-> IF nodes[i].data.label = <<>> THEN id
                               ELSE nodes[i].data.label,
                     inDegree |-> InDegree(rev, id),
                     outDegree |-> OutDegree(adj, id),
                     totalDegree |-> InDegree(rev, id) + OutDegree(adj, id),
                     betweenness |-> Zero,
                     pageRank |-> [num |-> <<>>, den |-> <<1>>]]
         IN  CentralityFrom(adj, rev, nodes, i + 1, Put(cent, id, rec))

DegreeRecords(adj, rev, nodes) == CentralityFrom(adj, rev, nodes, 1, EmptyMap)

(***************************************************************************)
(* computeBetweenness.                                                     *)
(***************************************************************************)
\* paths.get(id): paths is the Map as the list of its [dest, path] entries
PathOf(paths, id) ==
    paths[CHOOSE k \in 1..Len(paths) : paths[k].dest = id].path

RECURSIVE VisitNeighbors(_, _, _, _, _, _)
\* for (const neighbor of neighbors) if (!visited.has(neighbor)) ...
VisitNeighbors(neighbors, i, current, queue, visited, paths) ==
    IF i > Len(neighbors) THEN [queue |-> queue, visited |-> visited, paths |-> paths]
    ELSE IF neighbors[i] \in visited
         THEN VisitNeighbors(neighbors, i + 1, current, queue, visited, paths)
         ELSE VisitNeighbors(neighbors, i + 1, current,
                             Append(queue, neighbors[i]),
                             visited \cup {neighbors[i]},
                             Append(paths, [dest |-> neighbors[i],
                                            path |-> Append(PathOf(paths, current),
                                                            neighbors[i])]))

RECURSIVE BfsFrom(_, _, _, _)
\* while (queue.length > 0): the Map paths when the queue is empty
BfsFrom(adj, queue, visited, paths) ==
    IF queue = <<>> THEN paths
    ELSE LET current == Head(queue)
             r == VisitNeighbors(GetOr(adj, current, <<>>), 1, current,
                                 Tail(queue), visited, paths)
         IN  BfsFrom(adj, r.queue, r.visited, r.paths)

\* the BFS from source
BfsPaths(adj, source) ==
    BfsFrom(adj, <<source>>, {source}, <<[dest |-> source, path |-> <<source>>]>>)

\* mutant: the loop runs up to the last node of the path
InteriorAndLast(path) == 2..Len(path)

\* for (let i = 1; i < path.length - 1; i++), as positions from 1
Interior(path) == 2..(Len(path) - 1)

RECURSIVE CountPath(_, _, _)
\* the inner for-loop: centrality[path[i]].betweenness++ for the positions
\* from i on that are interior
CountPath(path, i, cent) ==
    IF i > Len(path) THEN cent
    ELSE IF i \in Interior(path) /\ path[i] \in DOMAIN cent
         THEN CountPath(path, i + 1,
                        [cent EXCEPT ![path[i]].betweenness =
                            Fraction(@.num + 1, 1)])
         ELSE CountPath(path, i + 1, cent)

RECURSIVE CountPaths(_, _, _, _)
\* for (const [dest, path] of paths) if (dest !== source && path.length > 2);
\* without any record in centrality no counter is touched (centrality[path[i]]
\* is undefined), and looking at cent here keeps it evaluated step by step
CountPaths(paths, k, source, cent) ==
    IF k > Len(paths) \/ DOMAIN cent = {} THEN cent
    ELSE IF paths[k].dest # source /\ Len(paths[k].path) > 2
         THEN CountPaths(paths, k + 1, source, CountPath(paths[k].path, 1, cent))
         ELSE CountPaths(paths, k + 1, source, cent)

RECURSIVE CountFrom(_, _, _, _)
\* for (const source of nodeIds)
CountFrom(adj, nodeIds, s, cent) ==
    IF s > Len(nodeIds) \/ DOMAIN cent = {} THEN cent
    ELSE CountFrom(adj, nodeIds, s + 1,
                   CountPaths(BfsPaths(adj, nodeIds[s]), 1, nodeIds[s], cent))

\* computeBetweenness up to its normalization: the path counters
CountBetweenness(adj, nodes, cent) ==
    CountFrom(adj, [i \in 1..Len(nodes) |-> nodes[i].id], 1, cent)

\* the largest member of a non-empty set of integers
MaxOf(ns) == CHOOSE n \in ns : \A m \in ns : m <= n

\* mutant: Math.max without the floor 1, 0 on an edgeless graph
MaxBetweennessNoFloor(cent) == MaxOf({cent[id].betweenness.num : id \in DOMAIN cent} \cup {0})

\* Math.max(...Object.values(centrality).map(c => c.betweenness), 1)
MaxBetweenness(cent) == MaxOf({cent[id].betweenness.num : id \in DOMAIN cent} \cup {1})

\* x / d for integers x >= 0, d >= 0; a division by 0 gives NaN (0/0, here
\* num 0 over den 0) or Infinity (num 1 over den 0)
Divide(x, d) ==
    IF d = 0 THEN [num |-> IF x = 0 THEN 0 ELSE 1, den |-> 0] ELSE Fraction(x, d)

\* for (const id in centrality) centrality[id].betweenness /= maxBetweenness
NormalizeBetweenness(cent) ==
    [id \in DOMAIN cent |->
        [cent[id] EXCEPT !.betweenness = Divide(@.num, MaxBetweenness(cent))]]

(***************************************************************************)
(* computePageRank.  The ranks are the exact rationals of the formula      *)
(* (the doubles of the code are these values rounded at every operation).  *)
(* Their numerators and denominators outgrow machine integers, so both are *)
(* naturals written as lists of limbs in base BigBase, lowest limb first,  *)
(* without leading zero limbs; <<>> is 0.  All ranks of one iteration are  *)
(* kept over one denominator.                                              *)
(***************************************************************************)
BigBase == 10^6

Limb(a, i) == IF i <= Len(a) THEN a[i] ELSE 0

RECURSIVE BigAddFrom(_, _, _, _)
BigAddFrom(a, b, i, carry) ==
    IF i > Len(a) /\ i > Len(b) THEN (IF carry = 0 THEN <<>> ELSE <<carry>>)
    ELSE LET x == Limb(a, i) + Limb(b, i) + carry
         IN  <<x % BigBase>> \o BigAddFrom(a, b, i + 1, x \div BigBase)

\* a + b
BigAdd(a, b) == BigAddFrom(a, b, 1, 0)

RECURSIVE BigMulFrom(_, _, _, _)
BigMulFrom(a, m, i, carry) ==
    IF i > Len(a) THEN (IF carry = 0 THEN <<>> ELSE <<carry>>)
    ELSE LET x == a[i] * m + carry
         IN  <<x % BigBase>> \o BigMulFrom(a, m, i + 1, x \div BigBase)

\* a * m, for a machine integer 0 <= m < 2000
BigMulSmall(a, m) == IF m = 0 THEN <<>> ELSE BigMulFrom(a, m, 1, 0)

RECURSIVE BigDivFrom(_, _, _, _)
\* long division from the highest limb down: the limbs of the quotient
BigDivFrom(a, m, i, rem) ==
    IF i = 0 THEN <<>>
    ELSE LET x == rem * BigBase + a[i]
         IN  Append(BigDivFrom(a, m, i - 1, x % m), x \div m)

RECURSIVE BigTrim(_)
BigTrim(a) == IF a # <<>> /\ Last(a) = 0 THEN BigTrim(Front(a)) ELSE a

\* a / m rounded down, for a machine integer 0 < m < 2000
BigDivSmall(a, m) == BigTrim(BigDivFrom(a, m, Len(a), 0))

RECURSIVE BigLessFrom(_, _, _)
BigLessFrom(a, b, i) ==
    IF i = 0 THEN FALSE
    ELSE IF a[i] # b[i] THEN a[i] < b[i] ELSE BigLessFrom(a, b, i - 1)

\* a < b
BigLess(a, b) ==
    IF Len(a) # Len(b) THEN Len(a) < Len(b) ELSE BigLessFrom(a, b, Len(a))

RECURSIVE BigSum(_)
BigSum(as) == IF as = <<>> THEN <<>> ELSE BigAdd(Head(as), BigSum(Tail(as)))

\* const iterations = 20
iterations == 20

\* const damping = 0.85
damping == Fraction(85, 100)

LCM(a, b) == (a * b) \div GCD(a, b)

RECURSIVE OutLcmFrom(_, _, _)
OutLcmFrom(adj, nodes, i) ==
    IF i > Len(nodes) THEN 1
    ELSE LET d == OutDegree(adj, nodes[i].id)
             rest == OutLcmFrom(adj, nodes, i + 1)
         IN  IF d > 0 THEN LCM(d, rest) ELSE rest

\* the least common multiple of the out-degrees that divide a rank
OutLcm(adj, nodes) == OutLcmFrom(adj, nodes, 1)

\* mutant: the initial value is 1 for every node
PageRankInitOne(nodes) ==
    [den |-> <<Len(nodes)>>,
     num |-> [id \in {nodes[i].id : i \in 1..Len(nodes)} |-> <<Len(nodes)>>]]

\* mutant: the test n === 0 left out
NoNodesNever(n) == FALSE

\* if (n === 0) return
NoNodes(n) == n = 0

\* pr after the initialization: 1 / n for every node
PageRankInit(nodes) ==
    [den |-> <<Len(nodes)>>,
     num |-> [id \in {nodes[i].id : i \in 1..Len(nodes)} |-> <<1>>]]

\* mutant: the rank of a node is handed whole to each node it points to
ShareOfUndivided(rank, outDegree, lcm) == BigMulSmall(rank, lcm)

\* pr.get(incoming) / outDegree, as a numerator over (den * lcm)
ShareOf(rank, outDegree, lcm) == BigMulSmall(rank, lcm \div outDegree)

RECURSIVE IncomingSum(_, _, _, _, _)
\* the loop over incomingNodes: sum, as a numerator over (den * lcm)
IncomingSum(adj, incoming, i, ranks, lcm) ==
    IF i > Len(incoming) THEN <<>>
    ELSE LET outDegree == OutDegree(adj, incoming[i])
             rest == IncomingSum(adj, incoming, i + 1, ranks, lcm)
         IN  IF outDegree > 0
             THEN BigAdd(ShareOf(ranks.num[incoming[i]], outDegree, lcm), rest)
             ELSE rest

\* mutant: the iteration leaves pr as it was
PageRankStepKeep(adj, rev, nodes, ranks) == ranks

\* one iteration: newPr, (1 - damping) / n + damping * sum for every node,
\* over the denominator den * damping.den * lcm
PageRankStep(adj, rev, nodes, ranks) ==
    LET n == Len(nodes)
        lcm == OutLcm(adj, nodes)
        base == BigMulSmall(BigDivSmall(ranks.den, n), (damping.den - damping.num) * lcm)
    IN  [den |-> BigMulSmall(ranks.den, damping.den * lcm),
         num |-> [id \in DOMAIN ranks.num |->
                    BigAdd(base,
                           BigMulSmall(IncomingSum(adj, GetOr(rev, id, <<>>), 1, ranks, lcm),
                                       damping.num))]]

\* for (const [id, value] of pr) if (centrality[id]) centrality[id].pageRank = value
StorePageRank(cent, ranks) ==
    [id \in DOMAIN cent |->
        IF id \in DOMAIN ranks.num
        THEN [cent[id] EXCEPT !.pageRank = [num |-> ranks.num[id], den |-> ranks.den]]
        ELSE cent[id]]

(***************************************************************************)
(* computeCentrality: the three rankings.                                  *)
(***************************************************************************)
\* Array.prototype.sort with the comparator (a, b) => key(b) - key(a): the
\* elements by descending key, elements of equal key in their order in s
\* (the sort is stable); above holds the pairs <<i, j>> of positions for which
\* the key of s[i] is above that of s[j]
SortDesc(s, above) ==
    LET pos(i) == 1 + Cardinality({j \in 1..Len(s) :
                                      \/ <<j, i>> \in above
                                      \/ (<<i, j>> \notin above /\ j < i)})
    IN  [k \in 1..Len(s) |-> s[CHOOSE i \in 1..Len(s) : pos(i) = k]]

\* the pairs of positions of s
PositionPairs(s) == (1..Len(s)) \X (1..Len(s))

\* .slice(0, 10)
TopN == 10

\* mutant: the sorted list is returned whole
SliceAll(s, n) == s

Slice(s, n) == SubSeq(s, 1, Min(n, Len(s)))

\* Object.values(centrality): the records in the order the nodes created them
Values(cent, nodes) == [i \in 1..Len(nodes) |-> cent[nodes[i].id]]

\* the pageRank of a is above that of b (both over the same denominator)
RankGt(a, b) == BigLess(b.pageRank.num, a.pageRank.num)

Rankings(cent, nodes) ==
    LET recs == Values(cent, nodes) IN
    [topByDegree |->
        Slice(SortDesc(recs, {p \in PositionPairs(recs) :
                                recs[p[1]].totalDegree > recs[p[2]].totalDegree}),
              TopN),
     topByPageRank |->
        Slice(SortDesc(recs, {p \in PositionPairs(recs) : RankGt(recs[p[1]], recs[p[2]])}),
              TopN),
     topByBetweenness |->
        Slice(SortDesc(recs, {p \in PositionPairs(recs) :
                                Less(recs[p[2]].betweenness, recs[p[1]].betweenness)}),
              TopN)]

(***************************************************************************)
(* computeClusters.                                                        *)
(***************************************************************************)
\* mutant: every node is filed under 'unknown'
LanguageOfUnknown(node) == "unknown"

\* node.data?.language || 'unknown'
LanguageOf(node) ==
    IF "language" \in DOMAIN node.data /\ node.data.language # ""
    THEN node.data.language ELSE "unknown"

\* node.data?.directory || 'root'
DirectoryOf(node) ==
    IF "directory" \in DOMAIN node.data /\ node.data.directory # <<>>
    THEN node.data.directory ELSE <<"root">>

RECURSIVE GroupFrom(_, _, _, _)
\* the loop of computeClusters for one grouping, keys[i] being the key of
\* nodes[i]: key -> list of { id, label }
GroupFrom(nodes, keys, i, groups) ==
    IF i > Len(nodes) THEN groups
    ELSE LET member == [id |-> nodes[i].id, label |-> nodes[i].data.label]
         IN  GroupFrom(nodes, keys, i + 1,
                       Put(groups, keys[i], Append(GetOr(groups, keys[i], <<>>), member)))

computeClusters(nodes) ==
    LET byLanguage ==
            GroupFrom(nodes, [i \in 1..Len(nodes) |-> LanguageOf(nodes[i])], 1, EmptyMap)
        byDirectory ==
            GroupFrom(nodes, [i \in 1..Len(nodes) |-> DirectoryOf(nodes[i])], 1, EmptyMap)
    IN  [byLanguage |-> byLanguage,
         byDirectory |-> byDirectory,
         languageCounts |-> [k \in DOMAIN byLanguage |-> Len(byLanguage[k])],
         directoryCounts |-> [k \in DOMAIN byDirectory |-> Len(byDirectory[k])]]

(***************************************************************************)
(* computeRisks.                                                           *)
(***************************************************************************)
\* the Set cycleNodes
CycleNodes(cycs) == UNION {Range(cycs[i].nodes) : i \in 1..Len(cycs)}

Rule(delta, factor) == <<[delta |-> delta, factor |-> factor]>>

\* High complexity
ComplexityRule(complexity) ==
    IF complexity > 20 THEN Rule(30, "High complexity")
    ELSE IF complexity > 10 THEN Rule(15, "Moderate complexity")
    ELSE <<>>

\* mutant: the else left out, both thresholds fire for inDegree > 5
CouplingRuleBoth(hasCent, cent) ==
    (IF hasCent /\ cent.inDegree > 5 THEN Rule(25, "High coupling (many dependents)")
     ELSE <<>>)
    \o (IF hasCent /\ cent.inDegree > 3 THEN Rule(10, "Moderate coupling") ELSE <<>>)

\* High coupling (many imports to this file); cent is undefined for a node
\* without a centrality record, and undefined > 5 is false
CouplingRule(hasCent, cent) ==
    IF hasCent /\ cent.inDegree > 5 THEN Rule(25, "High coupling (many dependents)")
    ELSE IF hasCent /\ cent.inDegree > 3 THEN Rule(10, "Moderate coupling")
    ELSE <<>>

\* High dependencies (many imports from this file)
DependencyRule(hasCent, cent) ==
    IF hasCent /\ cent.outDegree > 8 THEN Rule(20, "Too many dependencies")
    ELSE IF hasCent /\ cent.outDegree > 5 THEN Rule(10, "Many dependencies")
    ELSE <<>>

\* mutant: the cycle rule adds 20
CycleRuleLight(inCycle) ==
    IF inCycle THEN Rule(20, "Part of circular dependency") ELSE <<>>

\* In a cycle
CycleRule(inCycle) ==
    IF inCycle THEN Rule(35, "Part of circular dependency") ELSE <<>>

\* God module (large file with high centrality)
GodModuleRule(loc, hasCent, cent) ==
    IF loc > 300 /\ hasCent /\ cent.totalDegree > 5
    THEN Rule(25, "God module (large + central)") ELSE <<>>

\* mutant: the threshold is 1
BottleneckRuleAboveOne(hasCent, cent) ==
    IF hasCent /\ Less(Fraction(1, 1), cent.betweenness)
    THEN Rule(15, "Refactoring bottleneck") ELSE <<>>

\* High betweenness (refactoring bottleneck): cent.betweenness > 0.5
BottleneckRule(hasCent, cent) ==
    IF hasCent /\ Less(Fraction(1, 2), cent.betweenness)
    THEN Rule(15, "Refactoring bottleneck") ELSE <<>>

\* the rules that fire for one node, in the order of the code
FiredRules(node, byNode, cycleNodes) ==
    LET hasCent == node.id \in DOMAIN byNode
        cent == IF hasCent THEN byNode[node.id] ELSE <<>>
    IN  ComplexityRule(node.data.complexity)
        \o CouplingRule(hasCent, cent)
        \o DependencyRule(hasCent, cent)
        \o CycleRule(node.id \in cycleNodes)
        \o GodModuleRule(node.data.loc, hasCent, cent)
        \o BottleneckRule(hasCent, cent)

\* mutant: the thresholds taken strictly
RiskLevelStrict(riskScore) ==
    IF riskScore > 50 THEN "high" ELSE IF riskScore > 25 THEN "medium" ELSE "low"

\* riskScore >= 50 ? 'high' : riskScore >= 25 ? 'medium' : 'low'
RiskLevel(riskScore) ==
    IF riskScore >= 50 THEN "high" ELSE IF riskScore >= 25 THEN "medium" ELSE "low"

\* mutant: every node is pushed
ReportsAny(riskScore) == TRUE

\* if (riskScore > 0) risks.push(...)
Reports(riskScore) == riskScore > 0

\* the record pushed for one node
RiskRecord(node, byNode, cycleNodes) ==
    LET fired == FiredRules(node, byNode, cycleNodes)
        riskScore == Sum([k \in 1..Len(fired) |-> fired[k].delta])
        hasCent == node.id \in DOMAIN byNode
    IN  [nodeId |-> node.id,
         label |-> IF node.data.label = <<>> THEN node.id ELSE node.data.label,
         riskScore |-> riskScore,
         riskLevel |-> RiskLevel(riskScore),
         riskFactors |-> [k \in 1..Len(fired) |-> fired[k].factor],
         complexity |-> node.data.complexity,
         loc |-> node.data.loc,
         \* cent.inDegree and cent.outDegree, -1 standing for undefined
         inDegree |-> IF hasCent THEN byNode[node.id].inDegree ELSE -1,
         outDegree |-> IF hasCent THEN byNode[node.id].outDegree ELSE -1,
         inCycle |-> node.id \in cycleNodes]

\* the list risks before it is sorted
PushedRisks(nodes, byNode, cycs) ==
    SelectSeq([i \in 1..Len(nodes) |-> RiskRecord(nodes[i], byNode, CycleNodes(cycs))],
              LAMBDA r : Reports(r.riskScore))

\* mutant: the list is returned as pushed
SortRisksNot(pushed) == pushed

\* risks.sort((a, b) => b.riskScore - a.riskScore)
SortRisks(pushed) ==
    SortDesc(pushed, {p \in PositionPairs(pushed) :
                         pushed[p[1]].riskScore > pushed[p[2]].riskScore})

computeRisks(nodes, byNode, cycs) == SortRisks(PushedRisks(nodes, byNode, cycs))

\* the summary of computeGraphAnalytics
Summary(cycs, clus, rsks) ==
    [totalCycles |-> Len(cycs),
     highRiskCount |-> Len(SelectSeq(rsks, LAMBDA r : r.riskLevel = "high")),
     mediumRiskCount |-> Len(SelectSeq(rsks, LAMBDA r : r.riskLevel = "medium")),
     clusterCount |-> Cardinality(DOMAIN clus.byLanguage)]

(***************************************************************************)
(* Inputs.                                                                 *)
(***************************************************************************)
\* file paths of the build-focused inputs:
\*   a.js   a.ts   a   a->a   a/index.js
PathPool ==
    { <<"a", ".js">>, <<"a", ".ts">>, <<"a">>, <<"a", "->", "a">>,
      <<"a", "/", "index", ".js">> }

\* import specifiers of the build-focused inputs:
\*   a   a->a   ./a   b (matches nothing)
RelativeModules == { <<"a">>, <<"a", "->", "a">>, <<".", "/", "a">>, <<"b">> }

\* specifier of the imports marked isRelative:false: a (the path of a file of
\* PathPool, and the extension-less name of two more)
ExternalModules == { <<"a">> }

ImportPool ==
    {[module |-> m, isRelative |-> TRUE] : m \in RelativeModules}
    \cup {[module |-> m, isRelative |-> FALSE] : m \in ExternalModules}

\* the path of the i-th file of a graph-focused input: a, b, c, d, da, db, ...
RECURSIVE NodePath(_)
NodePath(i) ==
    IF i <= 4 THEN <<(<<"a", "b", "c", "d">>)[i]>> ELSE <<"d">> \o NodePath(i - 4)

RECURSIVE PathLists(_)
\* lists of k distinct paths of PathPool
PathLists(k) ==
    IF k = 0 THEN {<<>>}
    ELSE UNION {{Append(l, p) : p \in PathPool \ Range(l)} : l \in PathLists(k - 1)}

\* the ways to give n files lens[i] imports each, budget imports at most in all
ImportCounts(n, budget) == {lens \in [1..n -> 0..budget] : Sum(lens) <= budget}

\* cuts the import sequence t into one list per file, lens[i] imports for file i
ImportsOf(t, lens, i) ==
    SubSeq(t, Sum(SubSeq(lens, 1, i - 1)) + 1, Sum(SubSeq(lens, 1, i)))

FileRecord(p, imps) ==
    [path |-> p, language |-> "javascript", loc |-> 0, complexity |-> 1,
     imports |-> imps]

\* the files with the given paths, file i with lens[i] imports cut from t
FileList(paths, lens, t) ==
    [i \in 1..Len(paths) |-> FileRecord(paths[i], ImportsOf(t, lens, i))]

\* files is a list of files with the given paths and at most budget imports,
\* drawn from pool, in all
IsFileList(files, paths, budget, pool) ==
    \E lens \in ImportCounts(Len(paths), budget) :
        \E t \in [1..Sum(lens) -> pool] : files = FileList(paths, lens, t)

\* build-focused inputs: up to MaxFiles files of PathPool, MaxImports imports
IsBuildInput(files) ==
    \E k \in 0..MaxFiles : \E paths \in PathLists(k) :
        IsFileList(files, paths, MaxImports, ImportPool)

\* graph-focused inputs: files a, b, ... importing each other by exact path
IsGraphInput(files) ==
    \E n \in 0..MaxNodes :
        IsFileList(files, [i \in 1..n |-> NodePath(i)], MaxEdges,
                   {[module |-> NodePath(j), isRelative |-> TRUE] : j \in 1..n})

\* ring inputs: n files, each importing the next and the last the first; file
\* i may import one more file j, before or after its import of the next file
RingInputs(n) ==
    LET imp(j) == [module |-> NodePath(j), isRelative |-> TRUE]
        next(i) == imp((i % n) + 1)
        ring == [i \in 1..n |-> <<next(i)>>]
    IN  {[i \in 1..n |-> FileRecord(NodePath(i), imps[i])]
         : imps \in {ring}
               \cup {[ring EXCEPT ![c[1]] = <<imp(c[2])>> \o @] : c \in (1..n) \X (1..n)}
               \cup {[ring EXCEPT ![c[1]] = @ \o <<imp(c[2])>>] : c \in (1..n) \X (1..n)}}

\* chain inputs: n files, each but the last importing the next; file c may
\* import the first file as well, after its import of the next file (c = n
\* closes the chain into a ring, c = 1 makes the first file import itself)
ChainInputs(n) ==
    LET imp(j) == [module |-> NodePath(j), isRelative |-> TRUE]
        chain == [i \in 1..n |-> IF i < n THEN <<imp(i + 1)>> ELSE <<>>]
    IN  {[i \in 1..n |-> FileRecord(NodePath(i), imps[i])]
         : imps \in {chain} \cup {[chain EXCEPT ![c] = @ \o <<imp(1)>>] : c \in 1..n}}

\* diamond inputs: file a imports b and c, in either order, and both import
\* d, which may import a
DiamondInputs ==
    LET imp(j) == [module |-> NodePath(j), isRelative |-> TRUE]
    IN  {[i \in 1..4 |-> FileRecord(NodePath(i), imps[i])]
         : imps \in {<<first, <<imp(4)>>, <<imp(4)>>, last>>
                      : first \in {<<imp(2), imp(3)>>, <<imp(3), imp(2)>>},
                        last \in {<<>>, <<imp(1)>>}}}

(***************************************************************************)
(* The state machine: POST /analyze runs buildGraph, then                  *)
(* computeGraphAnalytics, on one parsed file list.                         *)
(***************************************************************************)
\* a const that is not initialized yet
Undefined == "undefined"

\* everything but the input, before buildGraph is called
Fresh ==
    /\ pc = "start"
    /\ graph = [nodes |-> <<>>, edges |-> <<>>]
    /\ adjacency = EmptyMap
    /\ reverseAdj = EmptyMap
    /\ index = EmptyMap
    /\ lowlink = EmptyMap
    /\ onStack = EmptyMap
    /\ stack = <<>>
    /\ sccs = <<>>
    /\ currentIndex = 0
    /\ frames = <<>>
    /\ outer = 1
    /\ calls = EmptyMap
    /\ cycles = <<>>
    /\ centrality = EmptyMap
    /\ pr = Undefined
    /\ iteration = 0
    /\ rankings = Undefined
    /\ clusters = Undefined
    /\ risks = Undefined
    /\ summary = Undefined

\* the analysis of a graph-focused, ring, chain or diamond input
Init ==
    /\ \/ IsGraphInput(parsedFiles)
       \/ \E n \in 2..MaxRing : parsedFiles \in RingInputs(n)
       \/ parsedFiles \in ChainInputs(MaxChain)
       \/ parsedFiles \in DiamondInputs
    /\ Fresh

\* the analysis of a graph-focused input, followed up to the return of
\* detectCycles
InitDetect ==
    /\ IsGraphInput(parsedFiles)
    /\ Fresh

\* buildGraph alone, on a build-focused input
InitBuild ==
    /\ IsBuildInput(parsedFiles)
    /\ Fresh

\* computeRisks on its own, as the module exports it: the nodes, the byNode
\* records and the cycles are drawn, with the degrees, sizes and scores on both
\* sides of every threshold of the rules
RiskProfiles ==
    {p \in [complexity : {10, 11, 20, 21},
            loc : {0, 300, 500},
            inDegree : {0, 3, 4, 5, 6},
            outDegree : {0, 4, 5, 6, 8, 9},
            betweenness : {Zero, Fraction(1, 2), One}] :
        \* a node inside a recorded path has an edge in and an edge out
        p.betweenness # Zero => (p.inDegree >= 1 /\ p.outDegree >= 1)}

\* the profiles of the nodes after the first: scores 0, 15, 50 and 15
CompanionProfiles ==
    {[complexity |-> 10, loc |-> 0, inDegree |-> 1, outDegree |-> 1, betweenness |-> Zero],
     [complexity |-> 11, loc |-> 0, inDegree |-> 1, outDegree |-> 1, betweenness |-> Zero],
     [complexity |-> 21, loc |-> 0, inDegree |-> 1, outDegree |-> 9, betweenness |-> Zero],
     [complexity |-> 10, loc |-> 0, inDegree |-> 1, outDegree |-> 1, betweenness |-> One]}

\* the node buildGraph creates for the i-th file, with a profile's numbers
RiskNode(i, p) ==
    [id |-> NodePath(i),
     data |-> [label |-> NodePath(i), path |-> NodePath(i), language |-> "javascript",
               loc |-> p.loc, complexity |-> p.complexity,
               importCount |-> p.outDegree, importedByCount |-> p.inDegree]]

\* the record computeCentrality creates for the i-th file
RiskCentrality(i, p) ==
    [nodeId |-> NodePath(i), label |-> NodePath(i),
     inDegree |-> p.inDegree, outDegree |-> p.outDegree,
     totalDegree |-> p.inDegree + p.outDegree,
     betweenness |-> p.betweenness,
     pageRank |-> [num |-> <<1>>, den |-> <<MaxRiskNodes>>]]

\* the arguments of computeRisks: the first node takes every profile, the
\* nodes after it a companion profile; the nodes form one cycle or none is on
\* a cycle (a cycle has two members at least, each with an edge in and out)
InitRisk ==
    /\ \E k \in 1..MaxRiskNodes : \E first \in RiskProfiles :
         \E rest \in [1..(k - 1) -> CompanionProfiles] : \E inCycle \in BOOLEAN :
            LET profile(i) == IF i = 1 THEN first ELSE rest[i - 1]
                nodes == [i \in 1..k |-> RiskNode(i, profile(i))]
            IN  /\ inCycle =>
                      (k >= 2 /\ \A i \in 1..k : /\ profile(i).inDegree >= 1
                                                  /\ profile(i).outDegree >= 1)
                /\ graph = [nodes |-> nodes, edges |-> <<>>]
                /\ centrality =
                      [id \in {NodePath(i) : i \in 1..k} |->
                          LET i == CHOOSE j \in 1..k : NodePath(j) = id
                          IN  RiskCentrality(i, profile(i))]
                /\ cycles = IF inCycle
                            THEN FormatCycles(<<[i \in 1..k |-> NodePath(i)]>>, nodes)
                            ELSE <<>>
    /\ pc = "risks"
    /\ parsedFiles = <<>>
    /\ adjacency = EmptyMap
    /\ reverseAdj = EmptyMap
    /\ index = EmptyMap
    /\ lowlink = EmptyMap
    /\ onStack = EmptyMap
    /\ stack = <<>>
    /\ sccs = <<>>
    /\ currentIndex = 0
    /\ frames = <<>>
    /\ outer = 1
    /\ calls = EmptyMap
    /\ pr = Undefined
    /\ iteration = 0
    /\ rankings = Undefined
    /\ clusters = Undefined
    /\ risks = Undefined
    /\ summary = Undefined

\* the values of getLanguage
Languages == {"javascript", "typescript", "python", "unknown"}

\* the directory of a node: none (the node has no such field), a or a/b
Directories == {<<>>, <<"a">>, <<"a", "/", "b">>}

\* the node buildGraph creates for the i-th file, of the given language and
\* under the given directory
ClusterNode(i, language, directory) ==
    LET data == [label |-> NodePath(i), path |-> NodePath(i), language |-> language,
                 loc |-> 0, complexity |-> 1, importCount |-> 0, importedByCount |-> 0]
    IN  [id |-> NodePath(i),
         data |-> IF directory = <<>> THEN data
                  ELSE [k \in DOMAIN data \cup {"directory"} |->
                           IF k = "directory" THEN directory ELSE data[k]]]

\* computeClusters on its own, as the module exports it: up to MaxClusterNodes
\* nodes of every language, with and without a directory
InitCluster ==
    /\ \E k \in 0..MaxClusterNodes :
         \E langs \in [1..k -> Languages] : \E dirs \in [1..k -> Directories] :
            graph = [nodes |-> [i \in 1..k |-> ClusterNode(i, langs[i], dirs[i])],
                     edges |-> <<>>]
    /\ pc = "clusters"
    /\ parsedFiles = <<>>
    /\ adjacency = EmptyMap
    /\ reverseAdj = EmptyMap
    /\ index = EmptyMap
    /\ lowlink = EmptyMap
    /\ onStack = EmptyMap
    /\ stack = <<>>
    /\ sccs = <<>>
    /\ currentIndex = 0
    /\ frames = <<>>
    /\ outer = 1
    /\ calls = EmptyMap
    /\ cycles = <<>>
    /\ centrality = EmptyMap
    /\ pr = Undefined
    /\ iteration = 0
    /\ rankings = Undefined
    /\ clusters = Undefined
    /\ risks = Undefined
    /\ summary = Undefined

\* mutant: the array is reordered in place
IteratedReversed(array) == Reverse(array)

\* an array a function is handed and iterates over (for...of, find, map): it
\* is read, and what the function pushes to or sorts is an array it created
Iterated(array) == array

\* graph after a function of computeGraphAnalytics that is handed graph, or
\* graph.nodes, has run
Handed(g) == [nodes |-> Iterated(g.nodes), edges |-> Iterated(g.edges)]

tarjanVars == <<index, lowlink, onStack, stack, sccs, currentIndex, frames, outer, calls>>

\* what computeCentrality writes after the degree records, and what follows it
rankVars == <<pr, iteration>>

resultVars == <<rankings, clusters, risks, summary>>

BuildGraph ==
    /\ pc = "start"
    /\ graph' = buildGraph(parsedFiles)
    /\ pc' = "built"
    /\ UNCHANGED <<parsedFiles, adjacency, reverseAdj, tarjanVars, cycles, centrality,
                   rankVars, resultVars>>

BuildAdjacencyLists ==
    /\ pc = "built"
    /\ adjacency' = buildAdjacencyList(graph)
    /\ reverseAdj' = buildReverseAdjacencyList(graph)
    /\ pc' = "detect"
    /\ graph' = Handed(graph)
    /\ UNCHANGED <<parsedFiles, tarjanVars, cycles, centrality,
                   rankVars, resultVars>>

\* for (const node of nodes) if (!index.has(node.id)) strongConnect(node.id)
OuterCall ==
    /\ pc = "detect" /\ frames = <<>> /\ outer <= Len(graph.nodes)
    /\ Unvisited(index, graph.nodes[outer].id)
    /\ Enter(graph.nodes[outer].id)
    /\ UNCHANGED <<pc, parsedFiles, graph, adjacency, reverseAdj, sccs, outer,
                   cycles, centrality,
                   rankVars, resultVars>>

OuterSkip ==
    /\ pc = "detect" /\ frames = <<>> /\ outer <= Len(graph.nodes)
    /\ ~Unvisited(index, graph.nodes[outer].id)
    /\ outer' = outer + 1
    /\ UNCHANGED <<pc, parsedFiles, graph, adjacency, reverseAdj, index, lowlink,
                   onStack, stack, sccs, currentIndex, frames, calls, cycles,
                   centrality,
                   rankVars, resultVars>>

\* if (!index.has(neighbor)) strongConnect(neighbor)
VisitCall ==
    /\ pc = "detect" /\ frames # <<>> /\ Top.pos <= Len(Neighbors(Top.node))
    /\ Unvisited(index, Neighbors(Top.node)[Top.pos])
    /\ Enter(Neighbors(Top.node)[Top.pos])
    /\ UNCHANGED <<pc, parsedFiles, graph, adjacency, reverseAdj, sccs, outer,
                   cycles, centrality,
                   rankVars, resultVars>>

\* else if (onStack.get(neighbor)) lowlink = min(lowlink, index[neighbor])
VisitOnStack ==
    /\ pc = "detect" /\ frames # <<>> /\ Top.pos <= Len(Neighbors(Top.node))
    /\ LET neighbor == Neighbors(Top.node)[Top.pos] IN
        /\ ~Unvisited(index, neighbor)
        /\ IsOnStack(onStack, neighbor)
        /\ lowlink' = Put(lowlink, Top.node, Min(lowlink[Top.node], index[neighbor]))
    /\ frames' = [frames EXCEPT ![Len(frames)].pos = @ + 1]
    /\ UNCHANGED <<pc, parsedFiles, graph, adjacency, reverseAdj, index, onStack,
                   stack, sccs, currentIndex, outer, calls, cycles, centrality,
                   rankVars, resultVars>>

\* a neighbor that has an index and is not on the stack: nothing happens
VisitFinished ==
    /\ pc = "detect" /\ frames # <<>> /\ Top.pos <= Len(Neighbors(Top.node))
    /\ LET neighbor == Neighbors(Top.node)[Top.pos] IN
        /\ ~Unvisited(index, neighbor)
        /\ ~IsOnStack(onStack, neighbor)
    /\ frames' = [frames EXCEPT ![Len(frames)].pos = @ + 1]
    /\ UNCHANGED <<pc, parsedFiles, graph, adjacency, reverseAdj, index, lowlink,
                   onStack, stack, sccs, currentIndex, outer, calls, cycles,
                   centrality,
                   rankVars, resultVars>>

\* the neighbours are done: pop a component if nodeId is a root, then return to
\* the caller, which takes the minimum of the two lowlinks
Return ==
    /\ pc = "detect" /\ frames # <<>> /\ Top.pos > Len(Neighbors(Top.node))
    /\ LET nodeId == Top.node
           isRoot == lowlink[nodeId] = index[nodeId]
           k == PopFrom(stack, nodeId)
           scc == Reverse(SubSeq(stack, k, Len(stack)))
           callers == Front(frames)
       IN  /\ stack' = IF isRoot THEN SubSeq(stack, 1, k - 1) ELSE stack
           /\ onStack' = IF isRoot
                         THEN [id \in DOMAIN onStack |->
                                  IF id \in Range(scc) THEN FALSE ELSE onStack[id]]
                         ELSE onStack
           /\ sccs' = IF isRoot /\ KeepScc(scc) THEN Append(sccs, scc) ELSE sccs
           /\ IF callers = <<>>
              THEN /\ frames' = <<>>
                   /\ outer' = outer + 1
                   /\ lowlink' = lowlink
              ELSE /\ frames' = [callers EXCEPT ![Len(callers)].pos = @ + 1]
                   /\ outer' = outer
                   /\ lowlink' = Put(lowlink, Last(callers).node,
                                     Min(lowlink[Last(callers).node], lowlink[nodeId]))
    /\ UNCHANGED <<pc, parsedFiles, graph, adjacency, reverseAdj, index,
                   currentIndex, calls, cycles, centrality,
                   rankVars, resultVars>>

\* return sccs.map(...)
ReturnCycles ==
    /\ pc = "detect" /\ frames = <<>> /\ outer > Len(graph.nodes)
    /\ cycles' = FormatCycles(sccs, graph.nodes)
    /\ pc' = "centrality"
    /\ graph' = Handed(graph)
    /\ UNCHANGED <<parsedFiles, adjacency, reverseAdj, tarjanVars, centrality,
                   rankVars, resultVars>>

\* the loop of computeCentrality that creates the record of every node
ComputeCentrality ==
    /\ pc = "centrality"
    /\ centrality' = DegreeRecords(adjacency, reverseAdj, graph.nodes)
    /\ pc' = "betweenness"
    /\ UNCHANGED <<parsedFiles, graph, adjacency, reverseAdj, tarjanVars, cycles,
                   rankVars, resultVars>>

inputVars == <<parsedFiles, graph, adjacency, reverseAdj, tarjanVars, cycles>>

\* inputVars but graph
derivedVars == <<parsedFiles, adjacency, reverseAdj, tarjanVars, cycles>>

\* computeBetweenness: the BFS from every node and the path counters
CountBetweennessPaths ==
    /\ pc = "betweenness"
    /\ centrality' = CountBetweenness(adjacency, graph.nodes, centrality)
    /\ pc' = "normalize"
    /\ UNCHANGED <<inputVars, rankVars, resultVars>>

\* computeBetweenness: Normalize betweenness
NormalizeCounters ==
    /\ pc = "normalize"
    /\ centrality' = NormalizeBetweenness(centrality)
    /\ pc' = "pagerank"
    /\ UNCHANGED <<inputVars, rankVars, resultVars>>

\* computePageRank: if (n === 0) return
PageRankSkip ==
    /\ pc = "pagerank" /\ NoNodes(Len(graph.nodes))
    /\ pc' = "rankings"
    /\ UNCHANGED <<inputVars, centrality, rankVars, resultVars>>

\* computePageRank: Initialize PageRank
PageRankStart ==
    /\ pc = "pagerank" /\ ~NoNodes(Len(graph.nodes))
    /\ pr' = PageRankInit(graph.nodes)
    /\ iteration' = 0
    /\ pc' = "iterate"
    /\ UNCHANGED <<inputVars, centrality, resultVars>>

\* computePageRank: one pass of for (let i = 0; i < iterations; i++)
PageRankIterate ==
    /\ pc = "iterate" /\ iteration < iterations
    /\ pr' = PageRankStep(adjacency, reverseAdj, graph.nodes, pr)
    /\ iteration' = iteration + 1
    /\ UNCHANGED <<pc, inputVars, centrality, resultVars>>

\* computePageRank: Store in centrality
PageRankStore ==
    /\ pc = "iterate" /\ ~(iteration < iterations)
    /\ centrality' = StorePageRank(centrality, pr)
    /\ pc' = "rankings"
    /\ UNCHANGED <<inputVars, rankVars, resultVars>>

\* computeCentrality: the rankings of its return value
ComputeRankings ==
    /\ pc = "rankings"
    /\ rankings' = Rankings(centrality, graph.nodes)
    /\ pc' = "clusters"
    /\ graph' = Handed(graph)
    /\ UNCHANGED <<derivedVars, centrality, rankVars, clusters, risks, summary>>

ComputeClusters ==
    /\ pc = "clusters"
    /\ clusters' = computeClusters(graph.nodes)
    /\ pc' = "risks"
    /\ graph' = Handed(graph)
    /\ UNCHANGED <<derivedVars, centrality, rankVars, rankings, risks, summary>>

ComputeRisks ==
    /\ pc = "risks"
    /\ risks' = computeRisks(graph.nodes, centrality, cycles)
    /\ pc' = "summary"
    /\ graph' = Handed(graph)
    /\ UNCHANGED <<derivedVars, centrality, rankVars, rankings, clusters, summary>>

\* the return statement of computeGraphAnalytics
ComputeSummary ==
    /\ pc = "summary"
    /\ summary' = Summary(cycles, clusters, risks)
    /\ pc' = "done"
    /\ UNCHANGED <<inputVars, centrality, rankVars, rankings, clusters, risks>>

Next ==
    \/ BuildGraph
    \/ BuildAdjacencyLists
    \/ OuterCall
    \/ OuterSkip
    \/ VisitCall
    \/ VisitOnStack
    \/ VisitFinished
    \/ Return
    \/ ReturnCycles
    \/ ComputeCentrality
    \/ CountBetweennessPaths
    \/ NormalizeCounters
    \/ PageRankSkip
    \/ PageRankStart
    \/ PageRankIterate
    \/ PageRankStore
    \/ ComputeRankings
    \/ ComputeClusters
    \/ ComputeRisks
    \/ ComputeSummary

Spec == Init /\ [][Next]_vars

\* buildGraph, the adjacency lists and detectCycles
NextDetect ==
    \/ BuildGraph
    \/ BuildAdjacencyLists
    \/ OuterCall
    \/ OuterSkip
    \/ VisitCall
    \/ VisitOnStack
    \/ VisitFinished
    \/ Return
    \/ ReturnCycles

SpecDetect == InitDetect /\ [][NextDetect]_vars

SpecBuild == InitBuild /\ [][BuildGraph]_vars

SpecRisk == InitRisk /\ [][ComputeRisks]_vars

SpecCluster == InitCluster /\ [][ComputeClusters]_vars

(***************************************************************************)
(* Properties of buildGraph.                                               *)
(***************************************************************************)
\* buildGraph has just returned (graph is not written again afterwards)
Built == pc = "built"

Finished == pc = "done"

\* the positions of graph.edges that hold an edge a -> b
EdgesBetween(a, b) ==
    {k \in 1..Len(graph.edges) : graph.edges[k].source = a /\ graph.edges[k].target = b}

\* the relative imports of file f, as positions of its import list
RelativeImports(f) ==
    {j \in 1..Len(parsedFiles[f].imports) : parsedFiles[f].imports[j].isRelative}

\* the file (position) the j-th import of file f resolves to, 0 for none
ResolvedTo(fileMap, f, j) == TargetFile(fileMap, parsedFiles[f].imports[j])

\* C1: the edge list returned by buildGraph holds no two edges with the same
\* (source, target) pair, and the relative imports of a file A that resolve to
\* a file B yield exactly one edge A -> B.
C1_EdgeDedup ==
    Built =>
        /\ \A k1, k2 \in 1..Len(graph.edges) :
              (/\ graph.edges[k1].source = graph.edges[k2].source
               /\ graph.edges[k1].target = graph.edges[k2].target) => k1 = k2
        /\ LET fileMap == FileMap(parsedFiles) IN
              \A f \in 1..Len(parsedFiles) : \A j \in RelativeImports(f) :
                  LET t == ResolvedTo(fileMap, f, j) IN
                      t # 0 => Cardinality(EdgesBetween(parsedFiles[f].path,
                                                        parsedFiles[t].path)) = 1

\* C28: the deduplication never merges two different edges: two candidate
\* edges with different (source, target) pairs never get the same dedup key,
\* so for every pair (A, B) for which some relative import of A resolves to B
\* the edge A -> B is in the output, whatever the paths, also paths that hold
\* the characters '->'.
C28_NoKeyCollision ==
    Built =>
        LET candidates == CreateEdges(parsedFiles)
            fileMap == FileMap(parsedFiles)
        IN  /\ \A k1, k2 \in 1..Len(candidates) :
                  EdgeKey(candidates[k1]) = EdgeKey(candidates[k2]) =>
                      /\ candidates[k1].source = candidates[k2].source
                      /\ candidates[k1].target = candidates[k2].target
            /\ \A f \in 1..Len(parsedFiles) : \A j \in RelativeImports(f) :
                  LET t == ResolvedTo(fileMap, f, j) IN
                      t # 0 => EdgesBetween(parsedFiles[f].path, parsedFiles[t].path) # {}

\* the input without its imports marked isRelative:false
RelativeOnly(files) ==
    [i \in 1..Len(files) |->
        [files[i] EXCEPT !.imports = SelectSeq(@, LAMBDA imp : imp.isRelative)]]

\* C2: an import with isRelative = false never produces an edge, also when its
\* module names an existing node: the edges are those of the same input
\* without its non-relative imports, and every edge A -> B comes from a
\* relative import of A that resolves to B.
C2_NoExternalEdges ==
    Built =>
        /\ graph.edges = UniqueEdges(CreateEdges(RelativeOnly(parsedFiles)))
        /\ LET fileMap == FileMap(parsedFiles) IN
              \A k \in 1..Len(graph.edges) :
                  \E f \in 1..Len(parsedFiles) : \E j \in RelativeImports(f) :
                      LET t == ResolvedTo(fileMap, f, j) IN
                          /\ parsedFiles[f].path = graph.edges[k].source
                          /\ t # 0
                          /\ parsedFiles[t].path = graph.edges[k].target

\* a file with an isRelative:false import whose module is the id of a node,
\* and no relative import anywhere: the graph has no edge
C2_Witness ==
    /\ Built
    /\ \E f \in 1..Len(parsedFiles) : \E j \in 1..Len(parsedFiles[f].imports) :
          /\ ~parsedFiles[f].imports[j].isRelative
          /\ parsedFiles[f].imports[j].module \in NodeIds(graph)
    /\ \A f \in 1..Len(parsedFiles) : RelativeImports(f) = {}
    /\ graph.edges = <<>>

\* some probe of the specifier names a file, by its path or its path without
\* extension
MatchesKnownFile(module) ==
    \E j \in 1..Len(PossiblePaths(module)) : \E f \in 1..Len(parsedFiles) :
        Normalize(PossiblePaths(module)[j])
            \in {parsedFiles[f].path, StripExt(parsedFiles[f].path)}

\* C3: a relative import that matches no known file creates no edge, and both
\* ends of every edge are ids of nodes of the returned node list.
C3_NoDanglingEdges ==
    Built =>
        /\ \A k \in 1..Len(graph.edges) :
              /\ graph.edges[k].source \in NodeIds(graph)
              /\ graph.edges[k].target \in NodeIds(graph)
        /\ \A f \in 1..Len(parsedFiles) :
              (\A j \in RelativeImports(f) :
                  ~MatchesKnownFile(parsedFiles[f].imports[j].module))
              => \A k \in 1..Len(graph.edges) :
                    graph.edges[k].source # parsedFiles[f].path

\* a file whose only relative import matches no file, beside a file with an
\* import that does: one edge, none from the first file
C3_Witness ==
    /\ Built
    /\ Len(graph.edges) = 1
    /\ \E f \in 1..Len(parsedFiles) :
          /\ RelativeImports(f) # {}
          /\ \A j \in RelativeImports(f) :
                ~MatchesKnownFile(parsedFiles[f].imports[j].module)
          /\ graph.edges[1].source # parsedFiles[f].path

\* the (source, target) pairs of an edge list, in order
Pairs(edges) == [k \in 1..Len(edges) |-> <<edges[k].source, edges[k].target>>]

\* a list without the later occurrences of its elements
FirstOccurrences(s) ==
    LET keep == {k \in 1..Len(s) : \A j \in 1..(k - 1) : s[j] # s[k]}
        nth(n) == CHOOSE k \in keep : Cardinality({j \in keep : j < k}) = n - 1
    IN  [n \in 1..Cardinality(keep) |-> s[nth(n)]]

\* C10: one node per FileRecord with id = path, in input order; the edges in
\* first-discovered order (files in input order, imports in import order),
\* the first occurrence of each pair kept.
C10_OutputOrder ==
    Built =>
        /\ Len(graph.nodes) = Len(parsedFiles)
        /\ \A i \in 1..Len(parsedFiles) : graph.nodes[i].id = parsedFiles[i].path
        /\ Pairs(graph.edges) = FirstOccurrences(Pairs(CreateEdges(parsedFiles)))

RECURSIVE FirstProbe(_, _, _)
\* the first probe of the list that, normalized, is the id of a node: that id,
\* <<>> when no probe is one
FirstProbe(ids, possible, j) ==
    IF j > Len(possible) THEN <<>>
    ELSE IF Normalize(possible[j]) \in ids THEN Normalize(possible[j])
         ELSE FirstProbe(ids, possible, j + 1)

\* C11: the target of every edge is the node id matched by the first
\* successful probe of a relative import of the edge's source, in the order
\* s, s.js, s.jsx, s.ts, s.tsx, s/index.js, s/index.ts, s/index.jsx,
\* s/index.tsx, a probe succeeding only when it is the id of a node (with
\* a.ts and a.js both present, in any order, an import of a resolves to a.js).
C11_FirstProbeWins ==
    Built =>
        \A k \in 1..Len(graph.edges) :
            \E f \in 1..Len(parsedFiles) : \E j \in RelativeImports(f) :
                /\ parsedFiles[f].path = graph.edges[k].source
                /\ FirstProbe(NodeIds(graph),
                              PossiblePaths(parsedFiles[f].imports[j].module), 1)
                       = graph.edges[k].target

\* C12: the degree counts stored on the nodes returned by buildGraph equal
\* the numbers of edges of the returned edge list that target the node
\* (importedByCount) and that leave it (importCount); both are 0 for a node no
\* returned edge touches.
C12_NodeDegreeCounts ==
    Built =>
        \A i \in 1..Len(graph.nodes) :
            /\ graph.nodes[i].data.importedByCount =
                  Cardinality({k \in 1..Len(graph.edges) :
                                  graph.edges[k].target = graph.nodes[i].id})
            /\ graph.nodes[i].data.importCount =
                  Cardinality({k \in 1..Len(graph.edges) :
                                  graph.edges[k].source = graph.nodes[i].id})

(***************************************************************************)
(* Properties of computeCentrality.                                        *)
(***************************************************************************)
\* C4: for every node, inDegree is the number of edges whose target is the
\* node, outDegree the number of edges whose source is the node, totalDegree
\* their sum.
C4_DegreeConsistency ==
    Finished =>
        /\ DOMAIN centrality = NodeIds(graph)
        /\ \A id \in NodeIds(graph) :
              /\ centrality[id].inDegree =
                    Cardinality({k \in 1..Len(graph.edges) : graph.edges[k].target = id})
              /\ centrality[id].outDegree =
                    Cardinality({k \in 1..Len(graph.edges) : graph.edges[k].source = id})
              /\ centrality[id].totalDegree =
                    centrality[id].inDegree + centrality[id].outDegree

\* the chain a -> b -> c: inDegree(a)=0, outDegree(a)=1, inDegree(c)=1,
\* outDegree(c)=0
C4_Witness ==
    /\ Finished
    /\ Pairs(graph.edges) = << <<NodePath(1), NodePath(2)>>, <<NodePath(2), NodePath(3)>> >>
    /\ Len(graph.nodes) = 3
    /\ centrality[NodePath(1)].inDegree = 0 /\ centrality[NodePath(1)].outDegree = 1
    /\ centrality[NodePath(3)].inDegree = 1 /\ centrality[NodePath(3)].outDegree = 0

(***************************************************************************)
(* Properties of detectCycles.                                             *)
(***************************************************************************)
\* detectCycles has just returned
Detected == pc = "centrality"

Successors(u) ==
    {graph.edges[k].target : k \in {k \in 1..Len(graph.edges) : graph.edges[k].source = u}}

RECURSIVE ReachableFrom(_)
\* the least set that holds seen and the successors of its members
ReachableFrom(seen) ==
    LET more == seen \cup UNION {Successors(u) : u \in seen}
    IN  IF more = seen THEN seen ELSE ReachableFrom(more)

\* the strongly connected component of u
SccOf(u) == {v \in NodeIds(graph) : v \in ReachableFrom({u}) /\ u \in ReachableFrom({v})}

HasEdge(u, v) == EdgesBetween(u, v) # {}

CycleSets == {Range(cycles[i].nodes) : i \in 1..Len(cycles)}

\* C5: the node sets of the reported cycles are exactly the strongly connected
\* components with 2 or more members, each reported once and whole.
C5_CyclesAreLargeSccs ==
    Detected =>
        /\ CycleSets = {c \in {SccOf(u) : u \in NodeIds(graph)} : Cardinality(c) >= 2}
        /\ Cardinality(CycleSets) = Len(cycles)
        /\ \A i \in 1..Len(cycles) :
              Cardinality(Range(cycles[i].nodes)) = Len(cycles[i].nodes)

\* a -> b, b -> a and a third file c that b also imports: one cycle {a, b}
C5_Witness ==
    /\ Detected
    /\ Len(graph.nodes) = 3
    /\ HasEdge(NodePath(1), NodePath(2)) /\ HasEdge(NodePath(2), NodePath(1))
    /\ HasEdge(NodePath(2), NodePath(3))
    /\ Len(cycles) = 1
    /\ Range(cycles[1].nodes) = {NodePath(1), NodePath(2)}
    /\ cycles[1].size = 2

\* C6: every reported cycle has size >= 2, and each of its nodes has an edge to
\* and an edge from a node of the same cycle.
C6_CycleMinimality ==
    Detected =>
        \A i \in 1..Len(cycles) :
            /\ cycles[i].size >= 2
            /\ \A v \in Range(cycles[i].nodes) :
                  /\ \E w \in Range(cycles[i].nodes) : HasEdge(v, w)
                  /\ \E w \in Range(cycles[i].nodes) : HasEdge(w, v)

\* a cycle of two files, one of them imported by a third file that is on no
\* cycle
C6_Witness ==
    /\ Detected
    /\ Len(graph.nodes) = 3
    /\ Len(cycles) = 1
    /\ cycles[1].size = 2
    /\ \E v \in NodeIds(graph) \ Range(cycles[1].nodes) :
          \E w \in Range(cycles[1].nodes) : HasEdge(v, w)

\* C7: size is the number of entries of nodes; severity is high for size >= 4,
\* medium for size 3, low for size 2.
C7_Severity ==
    Detected =>
        \A i \in 1..Len(cycles) :
            /\ cycles[i].size = Len(cycles[i].nodes)
            /\ cycles[i].size >= 4 => cycles[i].severity = "high"
            /\ cycles[i].size = 3 => cycles[i].severity = "medium"
            /\ cycles[i].size = 2 => cycles[i].severity = "low"

\* a cycle of four files, reported high
C7_Witness ==
    /\ Detected
    /\ \E i \in 1..Len(cycles) : cycles[i].size = 4 /\ cycles[i].severity = "high"

\* a file that imports itself and is on no cycle with another file
LoneSelfLoop(id) == HasEdge(id, id) /\ SccOf(id) = {id}

\* C8 as stated: a node with an edge to itself that belongs to no larger
\* component is reported as a 1-member cycle.
C8_SelfLoopReported ==
    Detected =>
        \A id \in NodeIds(graph) :
            LoneSelfLoop(id) => \E i \in 1..Len(cycles) : cycles[i].nodes = <<id>>

\* C8 amended: a node with an edge to itself that belongs to no larger
\* component is not reported: it is in no cycle of the result.
C8_SelfLoopNotReported ==
    Detected =>
        \A id \in NodeIds(graph) :
            LoneSelfLoop(id) => \A i \in 1..Len(cycles) : id \notin Range(cycles[i].nodes)

\* a file that imports itself, beside a two-file cycle that is reported
C8_Witness ==
    /\ Detected
    /\ \E id \in NodeIds(graph) : LoneSelfLoop(id)
    /\ Len(cycles) = 1

\* neighbours the active call of frame fr has still to look at
Remaining(fr) == Len(Neighbors(fr.node)) + 1 - fr.pos

\* what detectCycles has still to do: a node to enter costs more than the
\* neighbours its call will look at
Variant ==
    (Len(graph.edges) + 2) * Cardinality(NodeIds(graph) \ DOMAIN index)
    + Sum([i \in 1..Len(frames) |-> Remaining(frames[i]) + 1])
    + (Len(graph.nodes) + 1 - outer)

\* C9: detectCycles terminates and strongConnect is entered at most once per
\* node: every step of the traversal lowers a natural-number variant, the
\* node of every active call is on the stack when its do-while loop pops
\* down to it, and no node is entered twice.
C9_TerminatesOneVisit ==
    /\ [](\A id \in DOMAIN calls : calls[id] <= 1)
    /\ [](pc = "detect" => Variant >= 0)
    /\ [](pc = "detect" => \A i \in 1..Len(frames) : frames[i].node \in Range(stack))
    /\ [][pc = "detect" /\ pc' = "detect" => Variant' < Variant]_vars

\* a two-file cycle and a file that imports only itself: every file entered
\* exactly once, though each is met again as a neighbour or by the outer loop
C9_Witness ==
    /\ Detected
    /\ Len(cycles) = 1
    /\ Len(graph.nodes) = 3
    /\ \E id \in NodeIds(graph) : LoneSelfLoop(id)
    /\ \A id \in NodeIds(graph) : id \in DOMAIN calls /\ calls[id] = 1
    /\ outer = Len(graph.nodes) + 1

\* detectCycles is running
Detecting == pc = "detect"

\* the nodes of the active strongConnect calls, outermost first
ActiveNodes == [i \in 1..Len(frames) |-> frames[i].node]

RECURSIVE LongestFrom(_, _)
\* the number of nodes of the longest simple path that starts at u and keeps
\* off the nodes of used
LongestFrom(u, used) ==
    LET onward == {v \in NodeIds(graph) \ (used \cup {u}) : HasEdge(u, v)}
    IN  IF onward = {} THEN 1
        ELSE 1 + MaxOf({LongestFrom(v, used \cup {u}) : v \in onward})

\* the number of nodes of the longest simple path of the graph
LongestSimplePath ==
    IF graph.nodes = <<>> THEN 0
    ELSE MaxOf({LongestFrom(u, {}) : u \in NodeIds(graph)})

\* C27: during detectCycles the number of active strongConnect calls never
\* exceeds the number of nodes of the longest simple path of the graph, hence
\* never the number of nodes; the nodes of the active calls form a simple
\* path of the graph, caller to callee, and are all on the Tarjan stack.
C27_DepthBounded ==
    Detecting =>
        /\ Len(frames) <= LongestSimplePath
        /\ LongestSimplePath <= Len(graph.nodes)
        /\ \A i, j \in 1..Len(frames) : ActiveNodes[i] = ActiveNodes[j] => i = j
        /\ \A i \in 1..(Len(frames) - 1) : HasEdge(ActiveNodes[i], ActiveNodes[i + 1])
        /\ \A i \in 1..Len(frames) :
              /\ ActiveNodes[i] \in NodeIds(graph)
              /\ ActiveNodes[i] \in Range(stack)
              /\ IsOnStack(onStack, ActiveNodes[i])

\* three calls deep on a -> b -> c with c importing a: the innermost call
\* meets a, which is on the stack, and the depth is that of the longest
\* simple path
C27_Witness ==
    /\ Detecting
    /\ ActiveNodes = <<NodePath(1), NodePath(2), NodePath(3)>>
    /\ LongestSimplePath = 3
    /\ Top.pos <= Len(Neighbors(Top.node))
    /\ Neighbors(Top.node)[Top.pos] = NodePath(1)
    /\ Len(stack) = 3

\* the one-to-one maps of 1..n onto itself
Perms(n) == {f \in [1..n -> 1..n] : \A i, j \in 1..n : f[i] = f[j] => i = j}

\* the list s in the order f
Permuted(s, f) == [i \in 1..Len(s) |-> s[f[i]]]

\* the adjacency lists buildAdjacencyList makes of the graph, over all orders
\* of its edge list
AdjacenciesOfOrders ==
    {buildAdjacencyList([graph EXCEPT !.edges = Permuted(graph.edges, q)])
        : q \in Perms(Len(graph.edges))}

\* the node-id sets of a list of components
NodeSets(found) == {Range(found[i]) : i \in 1..Len(found)}

\* C24: the cycles detectCycles finds, as a set of node-id sets, are the same
\* for every order of the node list and every order of the edge list; only
\* the order of the cycles and of the ids inside a cycle may change.  (All
\* orders of the graphs of up to MaxNodes nodes and MaxEdges edges.)
C24_CyclesOrderFree ==
    [](/\ Detected
       /\ Len(graph.nodes) <= MaxNodes
       /\ Len(graph.edges) <= MaxEdges
       => /\ cycles = detectCycles(adjacency, graph.nodes)
          /\ LET sets == CycleSets
                 orders == Perms(Len(graph.nodes))
             IN  \A adj \in AdjacenciesOfOrders : \A p \in orders :
                    LET found == SccsFound(adj, Permuted(graph.nodes, p))
                    IN  /\ NodeSets(found) = sets
                        /\ Len(found) = Len(cycles))

\* a graph with a cycle for which another order of the nodes and edges gives
\* another list of cycles: the same node-id sets, the ids in another order
C24_Witness ==
    /\ Detected
    /\ Len(graph.nodes) = 3
    /\ Len(graph.edges) = 3
    /\ Len(cycles) = 1
    /\ \E adj \in AdjacenciesOfOrders : \E p \in Perms(Len(graph.nodes)) :
          LET found == detectCycles(adj, Permuted(graph.nodes, p))
          IN  /\ found # cycles
              /\ NodeSets(SccsFound(adj, Permuted(graph.nodes, p))) = CycleSets

(***************************************************************************)
(* Properties of computePageRank.                                          *)
(***************************************************************************)
\* the number of edges that leave id
EdgesOut(id) == Cardinality({k \in 1..Len(graph.edges) : graph.edges[k].source = id})

\* a non-empty graph in which every node has an outgoing edge
NoDangling ==
    /\ graph.nodes # <<>>
    /\ \A id \in NodeIds(graph) : EdgesOut(id) > 0

\* computePageRank has returned
Ranked == pc \in {"rankings", "clusters", "risks", "summary", "done"}

\* the sum of the numerators of the ranks in pr
MassOfPr == BigSum([i \in 1..Len(graph.nodes) |-> pr.num[graph.nodes[i].id]])

\* the sum of the numerators of the pageRank values stored in centrality
MassStored ==
    BigSum([i \in 1..Len(graph.nodes) |-> centrality[graph.nodes[i].id].pageRank.num])

\* the denominator the stored pageRank values share
StoredDen == centrality[graph.nodes[1].id].pageRank.den

SameDen == \A id \in DOMAIN centrality : centrality[id].pageRank.den = StoredDen

\* C13: on a non-empty graph without dangling nodes the pageRank values sum
\* to 1 after the initialization and after every iteration, there are exactly
\* 20 iterations, and the values stored in the result sum to 1.
C13_PageRankMass ==
    /\ (pc = "iterate" /\ NoDangling) => (iteration <= 20 /\ MassOfPr = pr.den)
    /\ (Ranked /\ NoDangling) =>
          (iteration = 20 /\ SameDen /\ MassStored = StoredDen)

\* a, b and c with a <-> b and c -> a: no dangling node, ranks that differ
C13_Witness ==
    /\ Finished
    /\ NoDangling
    /\ Len(graph.nodes) = 3
    /\ iteration = 20
    /\ MassStored = StoredDen
    /\ \E u, v \in NodeIds(graph) :
          BigLess(centrality[u].pageRank.num, centrality[v].pageRank.num)

\* 0 < pageRank of id < 1
RankInOpenUnit(id) ==
    /\ centrality[id].pageRank.num # <<>>
    /\ BigLess(centrality[id].pageRank.num, centrality[id].pageRank.den)

\* C14 as stated: on every non-empty graph every pageRank is strictly between
\* 0 and 1 and the values sum to 1.
C14_PageRankUnit ==
    (Finished /\ graph.nodes # <<>>) =>
        /\ \A id \in NodeIds(graph) : RankInOpenUnit(id)
        /\ SameDen /\ MassStored = StoredDen

\* C14 amended: on every non-empty graph every pageRank is strictly above 0
\* and at most 1; the values sum to 1 when no node is dangling and to less
\* than 1 when some node is.
C14_PageRankLeak ==
    (Finished /\ graph.nodes # <<>>) =>
        /\ SameDen
        /\ \A id \in NodeIds(graph) :
              /\ centrality[id].pageRank.num # <<>>
              /\ ~BigLess(centrality[id].pageRank.den, centrality[id].pageRank.num)
        /\ NoDangling => MassStored = StoredDen
        /\ ~NoDangling => BigLess(MassStored, StoredDen)

\* a single file that imports itself: its pageRank is exactly 1
C14_Witness ==
    /\ Finished
    /\ Len(graph.nodes) = 1
    /\ HasEdge(NodePath(1), NodePath(1))
    /\ centrality[NodePath(1)].pageRank.num = centrality[NodePath(1)].pageRank.den

\* no edge of the graph ends at id
NoIncoming(id) == \A k \in 1..Len(graph.edges) : graph.edges[k].target # id

\* the pageRank of id is (1 - 0.85) / n, that is 3 / (20 n)
IsBaseRank(id) ==
    BigMulSmall(centrality[id].pageRank.num, 20 * Len(graph.nodes))
        = BigMulSmall(centrality[id].pageRank.den, 3)

\* C25: a node without outgoing edge hands its rank to no node and the rank
\* is not redistributed: on every non-empty graph with such a node the final
\* pageRank values sum to strictly less than 1; and on every graph a node
\* without incoming edge ends with pageRank exactly (1 - 0.85) / n.
C25_DanglingLeak ==
    (Ranked /\ graph.nodes # <<>>) =>
        /\ ~NoDangling => (SameDen /\ BigLess(MassStored, StoredDen))
        /\ \A id \in NodeIds(graph) : NoIncoming(id) => IsBaseRank(id)

\* the chain a -> b -> c: c is dangling and the sum is below 1, a has no
\* incoming edge and ends with 0.15 / 3, b and c end above it
C25_Witness ==
    /\ Finished
    /\ Len(graph.nodes) = 3
    /\ Pairs(graph.edges) = << <<NodePath(1), NodePath(2)>>, <<NodePath(2), NodePath(3)>> >>
    /\ BigLess(MassStored, StoredDen)
    /\ IsBaseRank(NodePath(1))
    /\ ~IsBaseRank(NodePath(2))
    /\ BigLess(centrality[NodePath(2)].pageRank.num, centrality[NodePath(3)].pageRank.num)

(***************************************************************************)
(* Properties of computeBetweenness.                                       *)
(***************************************************************************)
\* the path counters before the normalization
RawCounter(id) == centrality[id].betweenness.num

\* max(1, largest raw counter)
Divisor ==
    IF \E id \in DOMAIN centrality : RawCounter(id) > 1
    THEN CHOOSE m \in {RawCounter(id) : id \in DOMAIN centrality} :
             \A id \in DOMAIN centrality : RawCounter(id) <= m
    ELSE 1

\* the path counters have just been filled and are not normalized yet
Counted == pc = "normalize"

RECURSIVE WithinSteps(_, _)
\* the nodes that some walk of at most k edges from s ends at
WithinSteps(s, k) ==
    IF k = 0 THEN {s}
    ELSE LET near == WithinSteps(s, k - 1)
         IN  near \cup {t \in NodeIds(graph) : \E u \in near : HasEdge(u, t)}

\* the path recorded for t by the traversal from s
RecordedPath(s, t) == PathOf(BfsPaths(adjacency, s), t)

\* path leads from s to t along edges of the graph and no path from s to t
\* has fewer edges
IsShortestPath(path, s, t) ==
    /\ Len(path) >= 1
    /\ path[1] = s /\ path[Len(path)] = t
    /\ \A i \in 1..(Len(path) - 1) : HasEdge(path[i], path[i + 1])
    /\ Len(path) > 1 => t \notin WithinSteps(s, Len(path) - 2)

\* the ordered pairs (s, t), s # t, t reachable from s, whose recorded path
\* has v between its ends
PairsThrough(v) ==
    {st \in NodeIds(graph) \X NodeIds(graph) :
        /\ st[1] # st[2]
        /\ st[2] \in ReachableFrom({st[1]})
        /\ LET path == RecordedPath(st[1], st[2])
           IN  \E i \in 2..(Len(path) - 1) : path[i] = v}

\* C26: before the normalization the counter of a node v is the number of
\* ordered pairs (s, t), s # t, t reachable from s, for which v is an
\* interior node of the one path the breadth-first traversal from s records
\* for t; the traversal records a path for exactly the reachable nodes, each
\* a shortest path from s to t, and s and t are not counted for their path.
C26_BetweennessCounts ==
    Counted =>
        /\ \A v \in NodeIds(graph) : RawCounter(v) = Cardinality(PairsThrough(v))
        /\ \A s \in NodeIds(graph) :
              LET paths == BfsPaths(adjacency, s) IN
                  /\ {paths[k].dest : k \in 1..Len(paths)} = ReachableFrom({s})
                  /\ \A k \in 1..Len(paths) :
                        /\ IsShortestPath(paths[k].path, s, paths[k].dest)
                        /\ \A j \in 1..Len(paths) : paths[j].dest = paths[k].dest => j = k
                        /\ \A i \in Interior(paths[k].path) :
                              paths[k].path[i] \notin {s, paths[k].dest}

\* the diamond where a imports c before b: both a, b, d and a, c, d are
\* shortest, the recorded path to d runs through c, the parent discovered
\* first, and c is counted for it, not b; d, which imports a, lies on four
\* recorded paths
C26_Witness ==
    /\ Counted
    /\ Len(graph.nodes) = 4
    /\ adjacency[NodePath(1)] = <<NodePath(3), NodePath(2)>>
    /\ IsShortestPath(<<NodePath(1), NodePath(2), NodePath(4)>>, NodePath(1), NodePath(4))
    /\ RecordedPath(NodePath(1), NodePath(4)) = <<NodePath(1), NodePath(3), NodePath(4)>>
    /\ RawCounter(NodePath(3)) = 1
    /\ RawCounter(NodePath(2)) = 0
    /\ RawCounter(NodePath(4)) = 4

\* C15: the normalization gives every node its raw counter divided by
\* max(1, largest raw counter): a number (no division by zero) in [0, 1], 0
\* for every node when no counter is positive, and exactly 1 for some node
\* when some counter is positive.
C15_BetweennessNormalized ==
    [][(pc = "normalize" /\ pc' = "pagerank") =>
          /\ DOMAIN centrality' = DOMAIN centrality
          /\ \A id \in DOMAIN centrality :
                LET b == centrality'[id].betweenness IN
                    /\ b.den > 0
                    /\ b.num * Divisor = RawCounter(id) * b.den
                    /\ 0 <= b.num /\ b.num <= b.den
          /\ (\A id \in DOMAIN centrality : RawCounter(id) = 0)
                => \A id \in DOMAIN centrality : centrality'[id].betweenness = Zero
          /\ (\E id \in DOMAIN centrality : RawCounter(id) > 0)
                => \E id \in DOMAIN centrality : centrality'[id].betweenness = One
      ]_vars

\* the normalization has just run on a graph where one node has betweenness
\* 1 and another a proper fraction
C15_Witness ==
    /\ pc = "pagerank"
    /\ \E id \in DOMAIN centrality : centrality[id].betweenness = One
    /\ \E id \in DOMAIN centrality :
          /\ Less(Zero, centrality[id].betweenness)
          /\ Less(centrality[id].betweenness, One)

(***************************************************************************)
(* Properties of computeRisks.                                             *)
(***************************************************************************)
\* computeRisks has just returned
Scored == pc = "summary"

\* the deltas of the six rules for the i-th node, 0 for a rule that does not
\* fire, from the table of the rules
RuleDeltas(i) ==
    LET node == graph.nodes[i]
        cent == centrality[node.id]
        complexity == node.data.complexity
        inCycle == \E c \in 1..Len(cycles) : node.id \in Range(cycles[c].nodes)
    IN  << IF complexity > 20 THEN 30 ELSE IF complexity > 10 THEN 15 ELSE 0,
           IF cent.inDegree > 5 THEN 25 ELSE IF cent.inDegree > 3 THEN 10 ELSE 0,
           IF cent.outDegree > 8 THEN 20 ELSE IF cent.outDegree > 5 THEN 10 ELSE 0,
           IF inCycle THEN 35 ELSE 0,
           IF node.data.loc > 300 /\ cent.totalDegree > 5 THEN 25 ELSE 0,
           IF 2 * cent.betweenness.num > cent.betweenness.den THEN 15 ELSE 0 >>

\* the labels of the six rules
RuleLabels ==
    << {"High complexity", "Moderate complexity"},
       {"High coupling (many dependents)", "Moderate coupling"},
       {"Too many dependencies", "Many dependencies"},
       {"Part of circular dependency"},
       {"God module (large + central)"},
       {"Refactoring bottleneck"} >>

ExpectedScore(i) == Sum(RuleDeltas(i))

\* the rules that fire for the i-th node, in rule order
FiredOf(i) == SelectSeq(<<1, 2, 3, 4, 5, 6>>, LAMBDA r : RuleDeltas(i)[r] > 0)

\* the positions of risks that hold a record of the i-th node
RecordsOf(i) == {k \in 1..Len(risks) : risks[k].nodeId = graph.nodes[i].id}

\* C16: the riskScore of every record is the sum of the deltas of the six
\* rules, each firing at most once at the higher of its thresholds, and its
\* riskFactors hold one label per fired rule, in rule order; a node with
\* loc = 500, inDegree = 3, outDegree = 4 scores at least 25.
C16_RiskScoreIsRuleSum ==
    Scored =>
        \A i \in 1..Len(graph.nodes) :
            /\ \A k \in RecordsOf(i) :
                  /\ risks[k].riskScore = ExpectedScore(i)
                  /\ Len(risks[k].riskFactors) = Len(FiredOf(i))
                  /\ \A f \in 1..Len(FiredOf(i)) :
                        risks[k].riskFactors[f] \in RuleLabels[FiredOf(i)[f]]
            /\ (/\ graph.nodes[i].data.loc = 500
                /\ centrality[graph.nodes[i].id].inDegree = 3
                /\ centrality[graph.nodes[i].id].outDegree = 4)
                  => \E k \in RecordsOf(i) : risks[k].riskScore >= 25

\* a node for which all six rules fire: score 150, six factors
C16_Witness ==
    /\ Scored
    /\ \E k \in 1..Len(risks) :
          /\ risks[k].riskScore = 150
          /\ Len(risks[k].riskFactors) = 6

\* C17: riskLevel is high for riskScore >= 50, medium for 25 <= riskScore <
\* 50, low for 0 < riskScore < 25; 24, 25, 49, 50 map to low, medium, medium,
\* high; a node with complexity 21, no edges, loc 0 and on no cycle scores 30
\* and is medium.
C17_RiskLevel ==
    /\ RiskLevel(24) = "low" /\ RiskLevel(25) = "medium"
    /\ RiskLevel(49) = "medium" /\ RiskLevel(50) = "high"
    /\ Scored =>
          /\ \A k \in 1..Len(risks) :
                /\ risks[k].riskScore >= 50 => risks[k].riskLevel = "high"
                /\ (risks[k].riskScore >= 25 /\ risks[k].riskScore < 50)
                      => risks[k].riskLevel = "medium"
                /\ (risks[k].riskScore > 0 /\ risks[k].riskScore < 25)
                      => risks[k].riskLevel = "low"
          /\ \A i \in 1..Len(graph.nodes) :
                (/\ graph.nodes[i].data.complexity = 21
                 /\ graph.nodes[i].data.loc = 0
                 /\ centrality[graph.nodes[i].id].totalDegree = 0
                 /\ cycles = <<>>)
                  => \E k \in RecordsOf(i) :
                        risks[k].riskScore = 30 /\ risks[k].riskLevel = "medium"

\* records with the scores 25 and 50, medium and high
C17_Witness ==
    /\ Scored
    /\ \E k \in 1..Len(risks) : risks[k].riskScore = 25 /\ risks[k].riskLevel = "medium"
    /\ \E k \in 1..Len(risks) : risks[k].riskScore = 50 /\ risks[k].riskLevel = "high"

\* C18: the list holds exactly one record for every node with riskScore > 0
\* and none for a node with score 0; every record has riskScore > 0 and a
\* non-empty riskFactors list, and no nodeId appears twice.
C18_OnlyPositiveScores ==
    Scored =>
        /\ \A i \in 1..Len(graph.nodes) :
              Cardinality(RecordsOf(i)) = IF ExpectedScore(i) > 0 THEN 1 ELSE 0
        /\ \A k \in 1..Len(risks) :
              /\ risks[k].riskScore > 0
              /\ risks[k].riskFactors # <<>>
              /\ risks[k].nodeId \in NodeIds(graph)
        /\ \A k1, k2 \in 1..Len(risks) :
              risks[k1].nodeId = risks[k2].nodeId => k1 = k2

\* two nodes, the first with score 0 and no record, the second with a record
C18_Witness ==
    /\ Scored
    /\ Len(graph.nodes) = 2
    /\ ExpectedScore(1) = 0 /\ ExpectedScore(2) > 0
    /\ Len(risks) = 1
    /\ risks[1].nodeId = NodePath(2)

\* C19: the list is sorted in non-increasing order of riskScore.
C19_SortedByScore ==
    Scored =>
        \A k \in 1..(Len(risks) - 1) : risks[k].riskScore >= risks[k + 1].riskScore

\* the second node scores more than the first and its record comes first
C19_Witness ==
    /\ Scored
    /\ Len(risks) = 2
    /\ ExpectedScore(1) > 0
    /\ ExpectedScore(1) < ExpectedScore(2)
    /\ risks[1].nodeId = NodePath(2)
    /\ risks[2].nodeId = NodePath(1)

(***************************************************************************)
(* Properties of the rankings of computeCentrality.                        *)
(***************************************************************************)
\* computeCentrality has returned
Listed == pc \in {"clusters", "risks", "summary", "done"}

\* the pairs <<u, v>> of node ids with totalDegree(u) > totalDegree(v)
DegreeAbove ==
    {p \in (DOMAIN centrality) \X (DOMAIN centrality) :
        centrality[p[1]].totalDegree > centrality[p[2]].totalDegree}

\* the pairs <<u, v>> of node ids with pageRank(u) > pageRank(v)
PageRankAbove ==
    {p \in (DOMAIN centrality) \X (DOMAIN centrality) :
        BigLess(centrality[p[2]].pageRank.num, centrality[p[1]].pageRank.num)}

\* the pairs <<u, v>> of node ids with betweenness(u) > betweenness(v)
BetweennessAbove ==
    {p \in (DOMAIN centrality) \X (DOMAIN centrality) :
        centrality[p[1]].betweenness.num * centrality[p[2]].betweenness.den
            > centrality[p[2]].betweenness.num * centrality[p[1]].betweenness.den}

\* top is a list of min(10, n) records of byNode, no node twice, in
\* non-increasing order of the measure, and no node left out is strictly above
\* a node of the list; above holds the pairs <<u, v>> with u strictly above v
IsTopList(top, above) ==
    /\ Len(top) = Min(10, Len(graph.nodes))
    /\ \A k \in 1..Len(top) :
          top[k].nodeId \in DOMAIN centrality /\ top[k] = centrality[top[k].nodeId]
    /\ \A j, k \in 1..Len(top) : top[j].nodeId = top[k].nodeId => j = k
    /\ \A k \in 1..(Len(top) - 1) : <<top[k + 1].nodeId, top[k].nodeId>> \notin above
    /\ \A id \in DOMAIN centrality \ {top[k].nodeId : k \in 1..Len(top)} :
          \A k \in 1..Len(top) : <<id, top[k].nodeId>> \notin above

\* C21: byNode has exactly one record per node, and each of topByDegree,
\* topByPageRank and topByBetweenness has min(10, n) records of byNode,
\* without repetition, in non-increasing order of totalDegree, pageRank and
\* betweenness, no omitted node being strictly above an included one.
C21_TopRankings ==
    Listed =>
        /\ DOMAIN centrality = NodeIds(graph)
        /\ Cardinality(DOMAIN centrality) = Len(graph.nodes)
        /\ \A id \in DOMAIN centrality : centrality[id].nodeId = id
        /\ IsTopList(rankings.topByDegree, DegreeAbove)
        /\ IsTopList(rankings.topByPageRank, PageRankAbove)
        /\ IsTopList(rankings.topByBetweenness, BetweennessAbove)

\* a graph of more than 10 nodes: each ranking has 10 records; the ranking by
\* degree and the one by betweenness leave out a node that is strictly below
\* their last record, and the pageRank values of the third are not all equal
C21_Witness ==
    /\ Listed
    /\ Len(graph.nodes) > 10
    /\ Len(rankings.topByDegree) = 10
    /\ Len(rankings.topByPageRank) = 10
    /\ Len(rankings.topByBetweenness) = 10
    /\ \E id \in DOMAIN centrality :
          <<rankings.topByDegree[10].nodeId, id>> \in DegreeAbove
    /\ \E id \in DOMAIN centrality :
          <<rankings.topByBetweenness[10].nodeId, id>> \in BetweennessAbove
    /\ <<rankings.topByPageRank[1].nodeId, rankings.topByPageRank[10].nodeId>>
          \in PageRankAbove

(***************************************************************************)
(* Properties of computeClusters.                                          *)
(***************************************************************************)
\* computeClusters has just returned
Clustered == pc = "risks"

\* the language a node is filed under
LanguageKey(i) ==
    IF graph.nodes[i].data.language = "" THEN "unknown" ELSE graph.nodes[i].data.language

\* the directory a node is filed under: 'root' for a node without directory
DirectoryKey(i) ==
    IF "directory" \in DOMAIN graph.nodes[i].data
    THEN graph.nodes[i].data.directory ELSE <<"root">>

\* the keys of the groups of a grouping that hold the id of the i-th node
GroupsOf(groups, i) ==
    {k \in DOMAIN groups :
        \E m \in 1..Len(groups[k]) : groups[k][m].id = graph.nodes[i].id}

RECURSIVE SumCounts(_, _)
\* the sum of counts[k] over the keys k
SumCounts(counts, keys) ==
    IF keys = {} THEN 0
    ELSE LET k == CHOOSE x \in keys : TRUE
         IN  counts[k] + SumCounts(counts, keys \ {k})

\* a grouping and its counts: no empty group, no member twice, every member
\* a node, counts[k] the size of group k, and the counts sum to the number of
\* nodes
ExactCounts(groups, counts) ==
    /\ DOMAIN counts = DOMAIN groups
    /\ \A k \in DOMAIN groups :
          /\ groups[k] # <<>>
          /\ counts[k] = Len(groups[k])
          /\ \A m, n \in 1..Len(groups[k]) : groups[k][m].id = groups[k][n].id => m = n
          /\ \A m \in 1..Len(groups[k]) : groups[k][m].id \in NodeIds(graph)
    /\ SumCounts(counts, DOMAIN counts) = Len(graph.nodes)

C20_EmptyInput ==
    parsedFiles = <<>> =>
        /\ pc # "iterate"
        /\ pc # "start" => graph = [nodes |-> <<>>, edges |-> <<>>]
        /\ Finished =>
              /\ cycles = <<>>
              /\ centrality = EmptyMap
              /\ rankings = [topByDegree |-> <<>>, topByPageRank |-> <<>>,
                             topByBetweenness |-> <<>>]
              /\ clusters = [byLanguage |-> EmptyMap, byDirectory |-> EmptyMap,
                             languageCounts |-> EmptyMap, directoryCounts |-> EmptyMap]
              /\ risks = <<>>
              /\ summary = [totalCycles |-> 0, highRiskCount |-> 0,
                            mediumRiskCount |-> 0, clusterCount |-> 0]

\* the analysis of the empty file list has returned
C20_Witness ==
    /\ Finished
    /\ parsedFiles = <<>>
    /\ graph.nodes = <<>>
    /\ summary.totalCycles = 0

(***************************************************************************)
(* Properties of the result of computeGraphAnalytics.                      *)
(***************************************************************************)
\* id is a node of some reported cycle
InReportedCycle(id) == \E c \in 1..Len(cycles) : id \in Range(cycles[c].nodes)

\* the positions of risks whose record has inCycle = true
InCycleRecords == {k \in 1..Len(risks) : risks[k].inCycle}

\* C29: in every result each node of a reported cycle appears in risks with
\* inCycle = true, the factor 'Part of circular dependency', riskScore >= 35
\* and riskLevel medium or high; no node outside every reported cycle has
\* inCycle = true; and the number of risk records with inCycle = true is the
\* sum of the sizes of the reported cycles.
C29_CycleNodesAtRisk ==
    Finished =>
        /\ \A id \in NodeIds(graph) : InReportedCycle(id) =>
              \E k \in InCycleRecords :
                  /\ risks[k].nodeId = id
                  /\ "Part of circular dependency" \in Range(risks[k].riskFactors)
                  /\ risks[k].riskScore >= 35
                  /\ risks[k].riskLevel \in {"medium", "high"}
        /\ \A c \in 1..Len(cycles) : Range(cycles[c].nodes) \subseteq NodeIds(graph)
        /\ \A k \in InCycleRecords : InReportedCycle(risks[k].nodeId)
        /\ Cardinality(InCycleRecords) = Sum([c \in 1..Len(cycles) |-> Len(cycles[c].nodes)])

\* a cycle of two among three files: one of the two is a bottleneck as well
\* and high, the other medium, and the third file has no record
C29_Witness ==
    /\ Finished
    /\ Len(graph.nodes) = 3
    /\ Len(cycles) = 1 /\ Len(cycles[1].nodes) = 2
    /\ Cardinality(InCycleRecords) = 2
    /\ \E k \in InCycleRecords : risks[k].riskScore = 35 /\ risks[k].riskLevel = "medium"
    /\ \E k \in InCycleRecords : risks[k].riskScore = 50 /\ risks[k].riskLevel = "high"
    /\ \E id \in NodeIds(graph) :
          ~InReportedCycle(id) /\ \A k \in 1..Len(risks) : risks[k].nodeId # id

\* some traversal of computeBetweenness records a path of three or more nodes
LongPathRecorded ==
    \E s \in NodeIds(graph) :
        LET paths == BfsPaths(adjacency, s)
        IN  \E k \in 1..Len(paths) : Len(paths[k].path) >= 3

\* the graph is the chain a -> b -> c
IsChainOfThree ==
    /\ Len(graph.nodes) = 3
    /\ Pairs(graph.edges) = << <<NodePath(1), NodePath(2)>>, <<NodePath(2), NodePath(3)>> >>

\* C30: in every result on a graph with a recorded path of three or more
\* nodes some node has betweenness exactly 1 and appears in risks with the
\* factor 'Refactoring bottleneck' and riskScore >= 15; the chain a -> b -> c,
\* where no other rule fires, yields a non-empty risk list that holds b with
\* score 15 and level low.
C30_BottleneckReported ==
    Finished =>
        /\ LongPathRecorded =>
              \E id \in NodeIds(graph) :
                  /\ centrality[id].betweenness = One
                  /\ \E k \in 1..Len(risks) :
                        /\ risks[k].nodeId = id
                        /\ "Refactoring bottleneck" \in Range(risks[k].riskFactors)
                        /\ risks[k].riskScore >= 15
        /\ IsChainOfThree =>
              /\ risks # <<>>
              /\ \E k \in 1..Len(risks) :
                    /\ risks[k].nodeId = NodePath(2)
                    /\ risks[k].riskScore = 15
                    /\ risks[k].riskLevel = "low"

\* the result for the chain a -> b -> c: the path a, b, c is recorded, b has
\* betweenness 1 and the one record of the list, a bottleneck with score 15
C30_Witness ==
    /\ Finished
    /\ IsChainOfThree
    /\ LongPathRecorded
    /\ centrality[NodePath(2)].betweenness = One
    /\ Len(risks) = 1
    /\ risks[1].nodeId = NodePath(2)
    /\ risks[1].riskFactors = <<"Refactoring bottleneck">>
    /\ risks[1].riskScore = 15 /\ risks[1].riskLevel = "low"

====
